---- MODULE Spec2Model ----
(***************************************************************************)
(* Progress-range engine of trench-mvp: interval algebra (mergeRanges,     *)
(* brush paint / erase), coverage and status derivation, the brush and     *)
(* box-selection pointer handlers of PanelMap, and the bounded undo stack  *)
(* of App.                                                                 *)
(*                                                                         *)
(* Fractions of a line's length are fixed-point integers: 1.0 is ONE units *)
(* (one unit = 0.00025), so the tolerance 0.001 is EPSILON = 4 units and   *)
(* the "done" threshold 0.99 is DONE_THRESHOLD = 3960 units.  Distances    *)
(* along a line and line lengths are whole metres.                         *)
(*                                                                         *)
(* pickNearestFeature and the turf projection are inputs of the pointer    *)
(* handlers: a point-event carries the feature it resolves to (0 = none),  *)
(* its pixel distance and the arc-length distance of the snapped point.    *)
(* Every handler runs to completion and React re-renders before the next   *)
(* event, so a handler's closure sees the state its predecessor committed. *)
(***************************************************************************)
EXTENDS Integers, Sequences, FiniteSets, TLC

VARIABLES
  features,       \* App: const [features, setFeatures] = useState([])
  undoStack,      \* App: const [undoStack, setUndoStack] = useState([])
  undoCount,      \* App: const [undoCount, setUndoCount] = useState(0)
  source,         \* which file the load effect has read ("none" before it ran)
  panel,          \* which PanelMap build is mounted: "brush" or "box"
  isDown,         \* MapBrushUnified.isDownRef
  downButton,     \* MapBrushUnified.downButtonRef
  actionStarted,  \* MapBrushUnified.actionStartedRef
  buttonHeld,     \* environment: a mouse button is physically held down
  gesture,        \* history: phase of the current brush gesture and the feature set at its mousedown
  boxDragging,    \* MapBoxSelection.draggingRef
  boxButton,      \* MapBoxSelection.buttonRef
  selectionBox,   \* MapBoxSelection: const [selectionBox, setSelectionBox] = useState(null)
  alg,            \* interval-algebra harness: input list, brush, result, operations applied
  heap,           \* object-identity harness: pair objects, who holds them, operations applied
  pick,           \* resolver harness: the candidates of one pickNearestFeature call and its result
  scalar,         \* App of the scalar-progress build: features with a progress, brush refs
  daily           \* useDailyLog: the state, the value the last render closed over, localStorage

vars == <<features, undoStack, undoCount, source, panel, isDown, downButton,
          actionStarted, buttonHeld, gesture, boxDragging, boxButton,
          selectionBox, alg, heap, pick, scalar, daily>>

appVars == <<features, undoStack, undoCount, source, panel, isDown, downButton,
             actionStarted, buttonHeld, gesture, boxDragging, boxButton,
             selectionBox>>

(***************************************************************************)
(* Program constants (fixed-point where they are fractions)                *)
(***************************************************************************)
ONE == 4000
EPSILON == 4
DONE_THRESHOLD == 3960
brushMeters == 2
PIXEL_TOLERANCE == 15
MAX_UNDO == 50

(***************************************************************************)
(* Bounds of the model                                                     *)
(***************************************************************************)
MaxLen == 3        \* longest ranges list fed to the interval-algebra harness
GridMax == 7       \* harness range endpoints are drawn from 0..GridMax
MaxSteps == 2      \* most interpolated points in one mousemove
MaxDepth == 1      \* Spec: snapshots on the undo stack before a further push is withheld
BrushDepth == 3    \* BrushSpec: the same, for the paint/erase-only specification
MaxChain == 52     \* UndoSpec: number of forward paint gestures
MaxHeapOps == 3    \* HeapSpec: operations applied to the tracked line
MaxCand == 2       \* PickSpec: features in the list handed to the resolver
MaxSegs == 2       \* PickSpec: segments of a candidate's polyline
MaxRecords == 3    \* DailySpec: records added between two resets
ProjDepth == 2     \* ProjSpec: snapshots on the undo stack before a further push is withheld

Max(a, b) == IF a >= b THEN a ELSE b
Min(a, b) == IF a <= b THEN a ELSE b
ButLast(s) == SubSeq(s, 1, Len(s) - 1)
Last(s) == s[Len(s)]

(***************************************************************************)
(* Interval algebra                                                        *)
(***************************************************************************)
\* A range is <<start, end>>.  A tagged range <<start, end, tag>> remembers
\* which array object it is: tag i is the i-th pair of the input list.
TagRanges(ranges) == [i \in DOMAIN ranges |-> <<ranges[i][1], ranges[i][2], i>>]
UntagRanges(tagged) == [i \in DOMAIN tagged |-> <<tagged[i][1], tagged[i][2]>>]

\* Array.prototype.sort with (a, b) => a[0] - b[0] is stable: x goes after
\* every element whose start is <= its own.
RECURSIVE InsertByStart(_, _)
InsertByStart(sorted, x) ==
  IF sorted = <<>> THEN <<x>>
  ELSE IF Head(sorted)[1] <= x[1]
       THEN <<Head(sorted)>> \o InsertByStart(Tail(sorted), x)
       ELSE <<x>> \o sorted

RECURSIVE SortByStart(_)
SortByStart(xs) ==
  IF xs = <<>> THEN <<>>
  ELSE InsertByStart(SortByStart(ButLast(xs)), Last(xs))

\* mutant of MergeWalk: strict comparison, a gap of exactly EPSILON is kept
RECURSIVE MergeWalkStrict(_, _, _)
MergeWalkStrict(rest, current, merged) ==
  IF rest = <<>> THEN Append(merged, current)
  ELSE LET next == Head(rest) IN
       IF next[1] < current[2] + EPSILON
       THEN MergeWalkStrict(Tail(rest),
                            <<current[1], Max(current[2], next[2]), current[3]>>, merged)
       ELSE MergeWalkStrict(Tail(rest), next, Append(merged, current))

\* the loop of mergeRanges: `current` is the accumulator, `merged` the output
RECURSIVE MergeWalk(_, _, _)
MergeWalk(rest, current, merged) ==
  IF rest = <<>> THEN Append(merged, current)
  ELSE LET next == Head(rest) IN
       IF next[1] <= current[2] + EPSILON
       THEN MergeWalk(Tail(rest),
                      <<current[1], Max(current[2], next[2]), current[3]>>, merged)
       ELSE MergeWalk(Tail(rest), next, Append(merged, current))

\* mutant of mergeTagged: the final `merged.push(current)` is left out
mergeTaggedNoFinalPush(ranges) ==
  IF ranges = <<>> THEN <<>>
  ELSE LET sorted == SortByStart(TagRanges(ranges))
       IN ButLast(MergeWalk(Tail(sorted), Head(sorted), <<>>))

\* mergeRanges keeping the identity of the pair objects it returns
mergeTagged(ranges) ==
  IF ranges = <<>> THEN <<>>
  ELSE LET sorted == SortByStart(TagRanges(ranges))
       IN MergeWalk(Tail(sorted), Head(sorted), <<>>)

\* mutant of mergeRanges: the tolerance test always succeeds, every range is
\* merged into the first
mergeRangesHull(ranges) ==
  IF ranges = <<>> THEN <<>>
  ELSE LET m == mergeTagged(ranges) IN << <<m[1][1], m[Len(m)][2]>> >>

mergeRanges(ranges) == UntagRanges(mergeTagged(ranges))

\* mergeRanges called with a value that may be missing (null or undefined):
\* `if (!ranges || ranges.length === 0) return []`
mergeRangesOrEmpty(missing, ranges) == IF missing THEN <<>> ELSE mergeRanges(ranges)

\* `feature.properties.ranges || []`
RangesOrEmpty(missing, ranges) == IF missing THEN <<>> ELSE ranges

\* `current[1] = Math.max(...)` writes into a pair of the input list: after
\* mergeRanges(ranges) the i-th input pair has the end of the output pair
\* that is the same object, if there is one.
MutatedByMerge(ranges) ==
  LET out == mergeTagged(ranges) IN
  [i \in DOMAIN ranges |->
     IF \E k \in DOMAIN out : out[k][3] = i
     THEN LET k == CHOOSE k \in DOMAIN out : out[k][3] = i
          IN <<ranges[i][1], out[k][2]>>
     ELSE ranges[i]]

\* paint branch of processPoint: append the brush range, then mergeRanges
PaintRanges(currentRanges, startP, endP) ==
  mergeRanges(Append(currentRanges, <<startP, endP>>))

\* mutant of EraseRanges: the pieces are emitted on `<=` and `>=`
RECURSIVE EraseRangesClosed(_, _, _)
EraseRangesClosed(currentRanges, startP, endP) ==
  IF currentRanges = <<>> THEN <<>>
  ELSE LET r == Head(currentRanges)
           rest == EraseRangesClosed(Tail(currentRanges), startP, endP)
       IN IF r[2] < startP \/ r[1] > endP
          THEN <<r>> \o rest
          ELSE (IF r[1] <= startP THEN <<<<r[1], startP>>>> ELSE <<>>)
               \o (IF r[2] >= endP THEN <<<<endP, r[2]>>>> ELSE <<>>)
               \o rest

\* erase branch of processPoint (the same loop is the body of box deselect)
RECURSIVE EraseRanges(_, _, _)
EraseRanges(currentRanges, startP, endP) ==
  IF currentRanges = <<>> THEN <<>>
  ELSE LET r == Head(currentRanges)
           rest == EraseRanges(Tail(currentRanges), startP, endP)
       IN IF r[2] < startP \/ r[1] > endP
          THEN <<r>> \o rest
          ELSE (IF r[1] < startP THEN <<<<r[1], startP>>>> ELSE <<>>)
               \o (IF r[2] > endP THEN <<<<endP, r[2]>>>> ELSE <<>>)
               \o rest

(***************************************************************************)
(* Coverage and status                                                     *)
(***************************************************************************)
RECURSIVE SumLengths(_)
SumLengths(ranges) ==
  IF ranges = <<>> THEN 0
  ELSE (Head(ranges)[2] - Head(ranges)[1]) + SumLengths(Tail(ranges))

Coverage(ranges) == Max(0, Min(ONE, SumLengths(ranges)))

\* mutant of StatusOf: `coverage >= 0` where the code has `coverage > 0`
StatusOfInclusive(coverage) ==
  IF coverage >= DONE_THRESHOLD THEN "done"
  ELSE IF coverage >= 0 THEN "in_progress"
  ELSE "pending"

StatusOf(coverage) ==
  IF coverage >= DONE_THRESHOLD THEN "done"
  ELSE IF coverage > 0 THEN "in_progress"
  ELSE "pending"

(***************************************************************************)
(* App: loading, the undo stack, reset                                     *)
(***************************************************************************)
THRESHOLD_M == 2

\* A raw input feature: its layer, the positions (metres along a survey
\* axis) of its first and last vertex, its own length, and the properties
\* a stored file may carry.  A normalised feature keeps these three numbers
\* as its geometry and their extent as its bounding box.  A missing status is ""; a missing progress has
\* has = FALSE.
RawFeature(layer, start, end, len, ranges, hasProgress, progress, status) ==
  [layer |-> layer, start |-> start, end |-> end, len |-> len, ranges |-> ranges,
   progress |-> [has |-> hasProgress, v |-> progress], status |-> status]

RECURSIVE SetToSeq(_)
SetToSeq(S) ==
  IF S = {} THEN <<>>
  ELSE LET m == CHOOSE x \in S : \A y \in S : x <= y
       IN <<m>> \o SetToSeq(S \ {m})

Close(p, q) == (IF p >= q THEN p - q ELSE q - p) < THRESHOLD_M

\* the grouping loops of normalizeGeoJSON: groups of indices into rawFeats
RECURSIVE GroupFrom(_, _, _)
GroupFrom(rawFeats, i, assigned) ==
  IF i > Len(rawFeats) THEN <<>>
  ELSE IF i \in assigned THEN GroupFrom(rawFeats, i + 1, assigned)
  ELSE LET members == {k \in (i + 1)..Len(rawFeats) :
                         /\ k \notin assigned
                         /\ \/ Close(rawFeats[i].start, rawFeats[k].start)
                            \/ Close(rawFeats[i].start, rawFeats[k].end)}
       IN <<(<<i>> \o SetToSeq(members))>>
          \o GroupFrom(rawFeats, i + 1, assigned \cup {i} \cup members)

RECURSIVE FlattenGroups(_, _, _)
FlattenGroups(rawFeats, groups, gIdx) ==
  IF gIdx > Len(groups) THEN <<>>
  ELSE LET grp == groups[gIdx]
           len == rawFeats[grp[1]].len
       IN [i \in DOMAIN grp |->
             LET p == rawFeats[grp[i]] IN
             [id |-> <<gIdx - 1, i - 1>>,
              lineId |-> gIdx - 1,
              geometry |-> <<p.start, p.end, p.len>>,
              bbox |-> <<Min(p.start, p.end), Max(p.start, p.end)>>,
              meters |-> len,
              ranges |-> IF p.progress.has /\ p.progress.v > 0
                         THEN <<<<0, p.progress.v>>>>
                         ELSE p.ranges,
              status |-> IF p.status = "" THEN "pending" ELSE p.status]]
          \o FlattenGroups(rawFeats, groups, gIdx + 1)

normalizeGeoJSON(j) ==
  LET rawFeats == SelectSeq(j, LAMBDA f : f.layer = "trenches")
  IN FlattenGroups(rawFeats, GroupFrom(rawFeats, 1, {}), 1)

\* JSON.parse(JSON.stringify(state)): every array and object is rebuilt from
\* its serialised fields; the fields held here are finite numbers and strings
cloneData(state) ==
  [i \in DOMAIN state |->
     [id |-> state[i].id,
      lineId |-> state[i].lineId,
      geometry |-> <<state[i].geometry[1], state[i].geometry[2], state[i].geometry[3]>>,
      bbox |-> <<state[i].bbox[1], state[i].bbox[2]>>,
      meters |-> state[i].meters,
      ranges |-> [k \in DOMAIN state[i].ranges |->
                    <<state[i].ranges[k][1], state[i].ranges[k][2]>>],
      status |-> state[i].status]]

\* mutant of pushUndoSnapshot: on overflow the newest entry is dropped
pushUndoSnapshotPop(stack, state) ==
  IF state = <<>> THEN stack
  ELSE LET next == Append(stack, cloneData(state))
       IN IF Len(next) > MAX_UNDO THEN ButLast(next) ELSE next

\* the undo stack after pushUndoSnapshot(state)
pushUndoSnapshot(stack, state) ==
  IF state = <<>> THEN stack
  ELSE LET next == Append(stack, cloneData(state))
       IN IF Len(next) > MAX_UNDO THEN Tail(next) ELSE next

\* mutant of beginUndoableAction: the snapshot is pushed twice
beginUndoableActionTwice(stack, feats) ==
  IF feats = <<>> THEN stack
  ELSE pushUndoSnapshot(pushUndoSnapshot(stack, feats), feats)

\* the undo stack after beginUndoableAction()
beginUndoableAction(stack, feats) ==
  IF feats = <<>> THEN stack ELSE pushUndoSnapshot(stack, feats)

\* mutant of CountAfterBegin: the count is incremented, not read off the stack
CountAfterBeginIncrement(count, stack, feats) ==
  IF feats = <<>> THEN count ELSE count + 1

\* setUndoCount(next.length) runs only when the snapshot is pushed
CountAfterBegin(count, stack, feats) ==
  IF feats = <<>> THEN count ELSE Len(beginUndoableAction(stack, feats))

\* App: <ProgressStats undoDisabled={!undoCount}>
undoDisabled == undoCount = 0

\* summary: a line is counted once, by the first feature that carries its lineId
FirstOfLine(feats, i) == \A k \in 1..(i - 1) : feats[k].lineId # feats[i].lineId

\* summary: ratio += (b - a) over the ranges, then Math.min(1, ratio)
SummaryRatio(ranges) == Min(ONE, SumLengths(ranges))

\* mutant of summary: seenLines is never consulted
RECURSIVE summaryNoSeen(_, _, _, _, _)
summaryNoSeen(feats, k, seenLines, total, completed) ==
  IF k > Len(feats)
  THEN [total |-> total, completed |-> completed, remaining |-> total * ONE - completed]
  ELSE LET f == feats[k] IN
       summaryNoSeen(feats, k + 1, seenLines \cup {f.lineId}, total + f.meters,
                         completed + f.meters * SummaryRatio(f.ranges))

\* the loop of summary from feature k on; completed and remaining are in
\* units of 1/ONE metre (meters times a ratio in units of 1/ONE)
RECURSIVE summary(_, _, _, _, _)
summary(feats, k, seenLines, total, completed) ==
  IF k > Len(feats)
  THEN [total |-> total, completed |-> completed, remaining |-> total * ONE - completed]
  ELSE LET f == feats[k] IN
       IF f.lineId \in seenLines
       THEN summary(feats, k + 1, seenLines, total, completed)
       ELSE summary(feats, k + 1, seenLines \cup {f.lineId}, total + f.meters,
                        completed + f.meters * SummaryRatio(f.ranges))

\* the scalar-progress build before its load effect has run
ScalarIdle == [loaded |-> FALSE, features |-> <<>>, isDown |-> FALSE, downButton |-> 0]

\* useDailyLog before anything is added: state and closure are [], nothing stored
\* (`closure` is the dailyLog the rendered addRecord closed over; `added`
\* is history: the records passed to addRecord since the last resetLog)
DailyIdle == [mounted |-> FALSE, dailyLog |-> <<>>, closure |-> <<>>,
              stored |-> [has |-> FALSE, text |-> <<>>], added |-> <<>>]

\* history: `undo` is the outcome of the last undoLast since the last gesture
\* event ("none", "restored", or "nothing" when the stack was empty)
NoGesture == [phase |-> "idle", base |-> <<>>, undo |-> "none"]

\* mutant of undoLast: the oldest snapshot is taken instead of the newest
undoLastShift ==
  /\ IF undoStack = <<>>
     THEN UNCHANGED <<undoStack, undoCount, features>>
     ELSE /\ undoStack' = Tail(undoStack)
          /\ undoCount' = Len(undoStack) - 1
          /\ features' = Head(undoStack)
  /\ gesture' = NoGesture
  /\ UNCHANGED <<source, panel, isDown, downButton, actionStarted, buttonHeld,
                 boxDragging, boxButton, selectionBox, alg, heap, pick, scalar, daily>>

undoLast ==
  /\ IF undoStack = <<>>
     THEN UNCHANGED <<undoStack, undoCount, features>>
     ELSE /\ undoStack' = ButLast(undoStack)
          /\ undoCount' = Len(undoStack) - 1
          /\ features' = Last(undoStack)
  /\ gesture' = [NoGesture EXCEPT !.undo = IF undoStack = <<>> THEN "nothing"
                                           ELSE "restored"]
  /\ UNCHANGED <<source, panel, isDown, downButton, actionStarted, buttonHeld,
                 boxDragging, boxButton, selectionBox, alg, heap, pick, scalar, daily>>

\* mutant of clearAll: the confirmation is asked for after the reset is done
clearAllBeforeConfirm(confirmed) ==
  /\ IF features = <<>>
     THEN UNCHANGED <<features, undoStack, undoCount>>
     ELSE /\ undoStack' = IF confirmed THEN beginUndoableAction(undoStack, features)
                          ELSE undoStack
          /\ undoCount' = IF confirmed
                          THEN CountAfterBegin(undoCount, undoStack, features)
                          ELSE undoCount
          /\ features' = [i \in DOMAIN features |->
                            [features[i] EXCEPT !.ranges = <<>>, !.status = "pending"]]
  /\ gesture' = NoGesture
  /\ UNCHANGED <<source, panel, isDown, downButton, actionStarted, buttonHeld,
                 boxDragging, boxButton, selectionBox, alg, heap, pick, scalar, daily>>

clearAll(confirmed) ==
  /\ IF features = <<>> \/ ~confirmed
     THEN UNCHANGED <<features, undoStack, undoCount>>
     ELSE /\ undoStack' = beginUndoableAction(undoStack, features)
          /\ undoCount' = CountAfterBegin(undoCount, undoStack, features)
          /\ features' = [i \in DOMAIN features |->
                            [features[i] EXCEPT !.ranges = <<>>, !.status = "pending"]]
  /\ gesture' = NoGesture
  /\ UNCHANGED <<source, panel, isDown, downButton, actionStarted, buttonHeld,
                 boxDragging, boxButton, selectionBox, alg, heap, pick, scalar, daily>>

\* the load effect of App: the stored or fetched file is normalised once
loadFile(name, j) ==
  /\ source = "none"
  /\ source' = name
  /\ features' = normalizeGeoJSON(j)
  /\ UNCHANGED <<undoStack, undoCount, panel, isDown, downButton, actionStarted,
                 buttonHeld, gesture, boxDragging, boxButton, selectionBox, alg,
                 heap, pick, scalar, daily>>

(***************************************************************************)
(* PanelMap (brush build): setProgressForLine and MapBrushUnified          *)
(***************************************************************************)
\* mutant of setProgressForLine: the ranges are replaced, the status is kept
setProgressForLineKeepStatus(prev, lineId, ranges) ==
  [i \in DOMAIN prev |->
     IF prev[i].lineId # lineId THEN prev[i]
     ELSE [prev[i] EXCEPT !.ranges = ranges]]

\* the updater of setProgressForLine applied to the pending state `prev`
setProgressForLine(prev, lineId, ranges) ==
  [i \in DOMAIN prev |->
     IF prev[i].lineId # lineId THEN prev[i]
     ELSE [prev[i] EXCEPT !.ranges = ranges,
                          !.status = StatusOf(Coverage(ranges))]]

\* a point-event: the feature pickNearestFeature returns (index into the
\* feature set, 0 for none), its pixel distance, and the length in metres of
\* the slice from the line's start to the snapped point
Point(feat, dpx, dist) == [feat |-> feat, dpx |-> dpx, dist |-> dist]

IsHit(pt) == pt.feat # 0 /\ pt.dpx <= PIXEL_TOLERANCE

\* meters || 1
TotalOf(feature) == IF feature.meters = 0 THEN 1 ELSE feature.meters

\* mutant of PointProg: the quotient is not clamped
PointProgUnclamped(feature, dist) == (dist * ONE) \div TotalOf(feature)

\* dist / total, clamped to [0, 1]
PointProg(feature, dist) ==
  LET pointProg == (dist * ONE) \div TotalOf(feature)
  IN IF pointProg > ONE THEN ONE ELSE IF pointProg < 0 THEN 0 ELSE pointProg

\* mutant of BrushProg: the brush is 2 m to either side of the point
BrushProgPerSide(feature) == (2 * brushMeters * ONE) \div TotalOf(feature)

BrushProg(feature) == (brushMeters * ONE) \div TotalOf(feature)
StartP(feature, dist) == Max(0, PointProg(feature, dist) - BrushProg(feature) \div 2)
EndP(feature, dist) == Min(ONE, PointProg(feature, dist) + BrushProg(feature) \div 2)

\* mutant of processPoints: only the feature that was hit is updated, not its line
RECURSIVE processPointsHitOnly(_, _, _, _)
processPointsHitOnly(closure, pending, pts, btn) ==
  IF pts = <<>> THEN pending
  ELSE LET pt == Head(pts) IN
       IF ~IsHit(pt) \/ btn \notin {0, 2}
       THEN processPointsHitOnly(closure, pending, Tail(pts), btn)
       ELSE LET feature == closure[pt.feat]
                startP == StartP(feature, pt.dist)
                endP == EndP(feature, pt.dist)
                newRanges == IF btn = 0
                             THEN PaintRanges(feature.ranges, startP, endP)
                             ELSE EraseRanges(feature.ranges, startP, endP)
            IN processPointsHitOnly(closure,
                 [pending EXCEPT ![pt.feat].ranges = newRanges,
                                 ![pt.feat].status = StatusOf(Coverage(newRanges))],
                 Tail(pts), btn)

\* processPoint for each point of one handler run, in order.  `closure` is
\* the feature set the handler closed over (its pairs are written by
\* mergeRanges), `pending` the state the queued setFeatures updaters build.
RECURSIVE processPoints(_, _, _, _)
processPoints(closure, pending, pts, btn) ==
  IF pts = <<>> THEN pending
  ELSE LET pt == Head(pts) IN
       IF ~IsHit(pt) \/ btn \notin {0, 2}
       THEN processPoints(closure, pending, Tail(pts), btn)
       ELSE LET feature == closure[pt.feat]
                startP == StartP(feature, pt.dist)
                endP == EndP(feature, pt.dist)
                currentRanges == feature.ranges
            IN IF btn = 0
               THEN LET combined == Append(currentRanges, <<startP, endP>>)
                        written == SubSeq(MutatedByMerge(combined), 1, Len(currentRanges))
                    IN processPoints([closure EXCEPT ![pt.feat].ranges = written],
                                     setProgressForLine(pending, feature.lineId,
                                                        mergeRanges(combined)),
                                     Tail(pts), btn)
               ELSE processPoints(closure,
                                  setProgressForLine(pending, feature.lineId,
                                                     EraseRanges(currentRanges, startP, endP)),
                                  Tail(pts), btn)

\* MapBrushUnified and MapBoxSelection are mounted only while features.length > 0
BrushMounted == panel = "brush" /\ features # <<>>
BoxMounted == panel = "box" /\ features # <<>>

\* useMapEvent('mousedown'): a button goes down over the map
onBrushMouseDown(btn, pt) ==
  /\ BrushMounted
  /\ ~buttonHeld
  /\ buttonHeld' = TRUE
  /\ IF btn \in {0, 2} /\ IsHit(pt)
     THEN /\ isDown' = TRUE
          /\ downButton' = btn
          /\ IF ~actionStarted
             THEN /\ undoStack' = beginUndoableAction(undoStack, features)
                  /\ undoCount' = CountAfterBegin(undoCount, undoStack, features)
             ELSE UNCHANGED <<undoStack, undoCount>>
          /\ actionStarted' = TRUE
          /\ features' = processPoints(features, features, <<pt>>, btn)
          /\ gesture' = [phase |-> "active", base |-> features, undo |-> "none"]
     ELSE UNCHANGED <<isDown, downButton, undoStack, undoCount, actionStarted,
                      features, gesture>>
  /\ UNCHANGED <<source, panel, boxDragging, boxButton, selectionBox, alg, heap, pick, scalar, daily>>

\* useMapEvent('mousemove'): pts are the interpolated points, in order
onBrushMouseMove(pts) ==
  /\ BrushMounted
  /\ IF isDown
     THEN features' = processPoints(features, features, pts, downButton)
     ELSE UNCHANGED features
  /\ UNCHANGED <<undoStack, undoCount, source, panel, isDown, downButton,
                 actionStarted, buttonHeld, gesture, boxDragging, boxButton,
                 selectionBox, alg, heap, pick, scalar, daily>>

\* mutant of onBrushMouseUp: actionStartedRef is left set
onBrushMouseUpKeepFlag ==
  /\ BrushMounted
  /\ buttonHeld
  /\ buttonHeld' = FALSE
  /\ IF isDown
     THEN /\ isDown' = FALSE
          /\ downButton' = 0
          /\ UNCHANGED actionStarted
     ELSE UNCHANGED <<isDown, downButton, actionStarted>>
  /\ gesture' = IF gesture.phase = "active"
                THEN [gesture EXCEPT !.phase = "completed"] ELSE NoGesture
  /\ UNCHANGED <<features, undoStack, undoCount, source, panel, boxDragging,
                 boxButton, selectionBox, alg, heap, pick, scalar, daily>>

\* useMapEvent('mouseup'): the button is released over the map
onBrushMouseUp ==
  /\ BrushMounted
  /\ buttonHeld
  /\ buttonHeld' = FALSE
  /\ IF isDown
     THEN /\ isDown' = FALSE
          /\ downButton' = 0
          /\ actionStarted' = FALSE
     ELSE UNCHANGED <<isDown, downButton, actionStarted>>
  /\ gesture' = IF gesture.phase = "active"
                THEN [gesture EXCEPT !.phase = "completed"] ELSE NoGesture
  /\ UNCHANGED <<features, undoStack, undoCount, source, panel, boxDragging,
                 boxButton, selectionBox, alg, heap, pick, scalar, daily>>

\* the pointer left the map and the button is released outside it: the map
\* receives no mouseup and MapBrushUnified registers no other handler
releaseOutsideMap ==
  /\ BrushMounted
  /\ buttonHeld
  /\ buttonHeld' = FALSE
  /\ gesture' = NoGesture
  /\ UNCHANGED <<features, undoStack, undoCount, source, panel, isDown,
                 downButton, actionStarted, boxDragging, boxButton,
                 selectionBox, alg, heap, pick, scalar, daily>>

(***************************************************************************)
(* PanelMap (box build): MapBoxSelection                                   *)
(***************************************************************************)
NoBox == [set |-> FALSE, w |-> 0, h |-> 0, type |-> ""]

\* what the release of a rectangle resolves to for one feature: whether the
\* spatial index returns it, and for each piece bboxClip leaves (with two or
\* more vertices) the lengths in metres of the slices to its two ends
Clip(hit, segs) == [hit |-> hit, segs |-> segs]

\* processSegment for every piece: newRangesToAddOrRemove
RECURSIVE ClipRanges(_, _)
ClipRanges(segs, totalLen) ==
  IF segs = <<>> THEN <<>>
  ELSE LET q0 == (Head(segs)[1] * ONE) \div totalLen
           q1 == (Head(segs)[2] * ONE) \div totalLen
           r0 == IF q0 > q1 THEN q1 ELSE q0
           r1 == IF q0 > q1 THEN q0 ELSE q1
       IN <<<<Max(0, r0), Min(ONE, r1)>>>> \o ClipRanges(Tail(segs), totalLen)

\* the coverage onMouseUp derives the status from: the plain sum
boxCoverage(finalRanges) == SumLengths(finalRanges)

\* deselect: every clip range is subtracted in turn
RECURSIVE SubtractAll(_, _)
SubtractAll(result, toRemove) ==
  IF toRemove = <<>> THEN result
  ELSE SubtractAll(EraseRanges(result, Head(toRemove)[1], Head(toRemove)[2]),
                   Tail(toRemove))

\* mutant of boxUpdate: the features the index does not return are filtered out
boxUpdateHitsOnly(prev, clips, isSelect) ==
  LET hitIdx == SetToSeq({i \in DOMAIN prev : clips[i].hit})
  IN [k \in DOMAIN hitIdx |->
        LET f == prev[hitIdx[k]]
            newRanges == ClipRanges(clips[hitIdx[k]].segs, TotalOf(f))
        IN IF newRanges = <<>> THEN f
           ELSE LET finalRanges == IF isSelect
                                   THEN mergeRanges(f.ranges \o newRanges)
                                   ELSE SubtractAll(f.ranges, newRanges)
                IN [f EXCEPT !.ranges = finalRanges,
                             !.status = StatusOf(boxCoverage(finalRanges))]]

\* the setFeatures updater of onMouseUp
boxUpdate(prev, clips, isSelect) ==
  [i \in DOMAIN prev |->
     LET f == prev[i] IN
     IF ~clips[i].hit THEN f
     ELSE LET newRanges == ClipRanges(clips[i].segs, TotalOf(f)) IN
          IF newRanges = <<>> THEN f
          ELSE LET finalRanges == IF isSelect
                                  THEN mergeRanges(f.ranges \o newRanges)
                                  ELSE SubtractAll(f.ranges, newRanges)
               IN [f EXCEPT !.ranges = finalRanges,
                            !.status = StatusOf(boxCoverage(finalRanges))]]

\* container 'mousedown'
onBoxMouseDown(button) ==
  /\ BoxMounted
  /\ ~buttonHeld
  /\ buttonHeld' = TRUE
  /\ IF button # 0 /\ button # 2
     THEN UNCHANGED <<boxDragging, boxButton, selectionBox>>
     ELSE /\ boxDragging' = TRUE
          /\ boxButton' = button
          /\ selectionBox' = [set |-> TRUE, w |-> 0, h |-> 0,
                              type |-> IF button = 0 THEN "select" ELSE "unselect"]
  /\ UNCHANGED <<features, undoStack, undoCount, source, panel, isDown,
                 downButton, actionStarted, gesture, alg, heap, pick, scalar, daily>>

\* window 'mousemove': w and h are the extent in pixels from the start corner
onBoxMouseMove(w, h) ==
  /\ BoxMounted
  /\ IF ~boxDragging
     THEN UNCHANGED selectionBox
     ELSE selectionBox' = [selectionBox EXCEPT !.set = TRUE, !.w = w, !.h = h]
  /\ UNCHANGED <<features, undoStack, undoCount, source, panel, isDown,
                 downButton, actionStarted, buttonHeld, gesture, boxDragging,
                 boxButton, alg, heap, pick, scalar, daily>>

\* mutant of onBoxMouseUp: buttonRef is ignored, every release selects
onBoxMouseUpAlwaysSelect(clips) ==
  /\ BoxMounted
  /\ buttonHeld
  /\ buttonHeld' = FALSE
  /\ IF ~boxDragging
     THEN UNCHANGED <<boxDragging, features, undoStack, undoCount, selectionBox>>
     ELSE /\ boxDragging' = FALSE
          /\ IF selectionBox.set /\ selectionBox.w > 2 /\ selectionBox.h > 2
             THEN /\ undoStack' = beginUndoableAction(undoStack, features)
                  /\ undoCount' = CountAfterBegin(undoCount, undoStack, features)
                  /\ features' = boxUpdate(features, clips, TRUE)
             ELSE UNCHANGED <<features, undoStack, undoCount>>
          /\ selectionBox' = NoBox
  /\ UNCHANGED <<source, panel, isDown, downButton, actionStarted, gesture,
                 boxButton, alg, heap, pick, scalar, daily>>

\* window 'mouseup': delivered wherever the button is released
onBoxMouseUp(clips) ==
  /\ BoxMounted
  /\ buttonHeld
  /\ buttonHeld' = FALSE
  /\ IF ~boxDragging
     THEN UNCHANGED <<boxDragging, features, undoStack, undoCount, selectionBox>>
     ELSE /\ boxDragging' = FALSE
          /\ IF selectionBox.set /\ selectionBox.w > 2 /\ selectionBox.h > 2
             THEN /\ undoStack' = beginUndoableAction(undoStack, features)
                  /\ undoCount' = CountAfterBegin(undoCount, undoStack, features)
                  /\ features' = boxUpdate(features, clips, boxButton = 0)
             ELSE UNCHANGED <<features, undoStack, undoCount>>
          /\ selectionBox' = NoBox
  /\ UNCHANGED <<source, panel, isDown, downButton, actionStarted, gesture,
                 boxButton, alg, heap, pick, scalar, daily>>

(***************************************************************************)
(* Scalar-progress build: normalizeGeoJSON, setProgressById, MapBrushUnified *)
(***************************************************************************)
\* step 3 of the scalar normalizeGeoJSON: progress is kept when it is a number
RECURSIVE FlattenScalar(_, _, _)
FlattenScalar(rawFeats, groups, gIdx) ==
  IF gIdx > Len(groups) THEN <<>>
  ELSE LET grp == groups[gIdx]
           len == rawFeats[grp[1]].len
       IN [i \in DOMAIN grp |->
             LET p == rawFeats[grp[i]] IN
             [id |-> <<gIdx - 1, i - 1>>,
              lineId |-> gIdx - 1,
              meters |-> len,
              progress |-> IF p.progress.has THEN p.progress.v ELSE 0]]
          \o FlattenScalar(rawFeats, groups, gIdx + 1)

\* the updater of setProgressById applied to the pending state `prev`
setProgressById(prev, id, newProg) ==
  IF ~\E k \in DOMAIN prev : prev[k].id = id THEN prev
  ELSE LET clicked == prev[CHOOSE k \in DOMAIN prev :
                             /\ prev[k].id = id
                             /\ \A m \in 1..(k - 1) : prev[m].id # id]
           targetLineId == clicked.lineId
       IN [i \in DOMAIN prev |->
             IF prev[i].lineId = targetLineId
             THEN [prev[i] EXCEPT !.progress = newProg]
             ELSE prev[i]]

\* processPoint of the scalar build for each point of one handler run, in
\* order: `closure` is the feature list the handler closed over, `pending`
\* the state the queued setData updaters build
RECURSIVE scalarProcessPoints(_, _, _, _)
scalarProcessPoints(closure, pending, pts, btn) ==
  IF pts = <<>> THEN pending
  ELSE LET pt == Head(pts) IN
       IF ~IsHit(pt) THEN scalarProcessPoints(closure, pending, Tail(pts), btn)
       ELSE LET feature == closure[pt.feat]
                newProg == PointProg(feature, pt.dist)
                current == feature.progress
            IN IF btn = 0
               THEN scalarProcessPoints(closure,
                      IF newProg > current
                      THEN setProgressById(pending, feature.id, newProg)
                      ELSE pending,
                      Tail(pts), btn)
               ELSE IF btn = 2
               THEN scalarProcessPoints(closure,
                      setProgressById(pending, feature.id, newProg), Tail(pts), btn)
               ELSE scalarProcessPoints(closure, pending, Tail(pts), btn)

\* the load effect of the scalar App
scalarLoad(j) ==
  /\ ~scalar.loaded
  /\ LET rawFeats == SelectSeq(j, LAMBDA f : f.layer = "trenches")
     IN scalar' = [scalar EXCEPT
                     !.loaded = TRUE,
                     !.features = FlattenScalar(rawFeats, GroupFrom(rawFeats, 1, {}), 1)]
  /\ UNCHANGED <<appVars, alg, heap, pick, daily>>

\* useMapEvent('mousedown') of the scalar build; the brush is mounted with the data
scalarMouseDown(btn, pt) ==
  /\ scalar.loaded
  /\ scalar' = IF btn = 1 THEN [scalar EXCEPT !.downButton = btn]
               ELSE [scalar EXCEPT !.downButton = btn, !.isDown = TRUE,
                       !.features = scalarProcessPoints(scalar.features, scalar.features,
                                                        <<pt>>, btn)]
  /\ UNCHANGED <<appVars, alg, heap, pick, daily>>

\* useMapEvent('mousemove') of the scalar build
scalarMouseMove(pts) ==
  /\ scalar.loaded
  /\ scalar' = IF ~scalar.isDown \/ scalar.downButton = 1 THEN scalar
               ELSE [scalar EXCEPT
                       !.features = scalarProcessPoints(scalar.features, scalar.features,
                                                        pts, scalar.downButton)]
  /\ UNCHANGED <<appVars, alg, heap, pick, daily>>

\* useMapEvent('mouseup') of the scalar build
scalarMouseUp ==
  /\ scalar.loaded
  /\ scalar' = [scalar EXCEPT !.isDown = FALSE, !.downButton = 0]
  /\ UNCHANGED <<appVars, alg, heap, pick, daily>>

(***************************************************************************)
(* useDailyLog: the daily log and its 'dailyLog' entry in localStorage     *)
(***************************************************************************)
\* a record as SubmitModal submits it (subcontractor and workers left out)
DailyRecord(date, installed) == [date |-> date, installed_panels |-> installed]

\* JSON.stringify(records): each record becomes its list of key/value pairs
jsonStringify(records) ==
  [k \in DOMAIN records |->
     << <<"date", records[k].date>>,
        <<"installed_panels", records[k].installed_panels>> >>]

\* JSON.parse of a text written by jsonStringify
jsonParse(text) ==
  [k \in DOMAIN text |-> DailyRecord(text[k][1][2], text[k][2][2])]

\* persist(records) applied to the hook state d: setDailyLog, then setItem
persist(d, records) ==
  [d EXCEPT !.dailyLog = records,
            !.stored = [has |-> TRUE, text |-> jsonStringify(records)]]

\* addRecord(record): `dailyLog` is the value of the render that made the callback
addRecord(record) ==
  /\ daily.mounted
  /\ daily' = persist([daily EXCEPT !.added = Append(daily.added, record)],
                      Append(daily.closure, record))
  /\ UNCHANGED <<appVars, alg, heap, pick, scalar>>

\* the component re-renders: addRecord is made anew over the current dailyLog
dailyRender ==
  /\ daily.mounted
  /\ daily.closure # daily.dailyLog
  /\ daily' = [daily EXCEPT !.closure = daily.dailyLog]
  /\ UNCHANGED <<appVars, alg, heap, pick, scalar>>

resetLog ==
  /\ daily.mounted
  /\ daily' = [daily EXCEPT !.stored = [has |-> FALSE, text |-> <<>>],
                            !.dailyLog = <<>>, !.added = <<>>]
  /\ UNCHANGED <<appVars, alg, heap, pick, scalar>>

\* the mount effect and the render its setDailyLog causes
dailyMount ==
  /\ ~daily.mounted
  /\ LET loaded == IF daily.stored.has THEN jsonParse(daily.stored.text) ELSE <<>>
     IN daily' = [daily EXCEPT !.mounted = TRUE, !.dailyLog = loaded,
                               !.closure = loaded]
  /\ UNCHANGED <<appVars, alg, heap, pick, scalar>>

(***************************************************************************)
(* Nearest-feature resolver: pixelDistancePointToFeature, pickNearestFeature *)
(***************************************************************************)
\* `let minD = Infinity`: larger than every pixel distance drawn
Infinity == 99999

\* A candidate feature as the resolver sees it for one query point: its id
\* and, for each pair of consecutive vertices, the pixel distance that
\* distPointToSegment returns (no pair: fewer than two vertices, or a
\* geometry that is neither LineString nor MultiLineString).
Candidate(id, segs) == [id |-> id, segs |-> segs]

\* the segment loop of pixelDistancePointToFeature, minD is the running minimum
RECURSIVE SegmentWalk(_, _)
SegmentWalk(segs, minD) ==
  IF segs = <<>> THEN minD
  ELSE LET d == Head(segs) IN
       IF d <= PIXEL_TOLERANCE THEN d
       ELSE SegmentWalk(Tail(segs), IF d < minD THEN d ELSE minD)

\* mutant of pixelDistancePointToFeature: minD is overwritten by every
\* segment, so the distance of the last segment is returned
pixelDistanceLastSegment(feature) ==
  IF feature.segs = <<>> THEN Infinity ELSE Last(feature.segs)

pixelDistancePointToFeature(feature) == SegmentWalk(feature.segs, Infinity)

\* allFeatures is [isNull, items]; spatialIndex is [present, hits] where hits
\* are the features of the entries that search returns
FeatureList(isNull, items) == [isNull |-> isNull, items |-> items]
SpatialIndex(present, hits) == [present |-> present, hits |-> hits]

\* mutant of CandidatesOf: no `|| []` fallback, a null list is iterated as is
CandidatesOfNoFallback(allFeatures, spatialIndex) ==
  IF spatialIndex.present /\ spatialIndex.hits # <<>>
  THEN [iterable |-> TRUE, items |-> spatialIndex.hits]
  ELSE [iterable |-> ~allFeatures.isNull, items |-> allFeatures.items]

\* the candidate list of pickNearestFeature
CandidatesOf(allFeatures, spatialIndex) ==
  IF spatialIndex.present /\ spatialIndex.hits # <<>>
  THEN [iterable |-> TRUE, items |-> spatialIndex.hits]
  ELSE [iterable |-> TRUE,
        items |-> IF allFeatures.isNull THEN <<>> ELSE allFeatures.items]

\* mutant of BestWalk: `dpx <= bestD`, the last of several equal candidates wins
RECURSIVE BestWalkLastWins(_, _, _)
BestWalkLastWins(candidates, best, bestD) ==
  IF candidates = <<>> THEN [threw |-> FALSE, feature |-> best, dpx |-> bestD]
  ELSE LET f == Head(candidates)
           dpx == pixelDistancePointToFeature(f)
       IN IF dpx <= bestD THEN BestWalkLastWins(Tail(candidates), f.id, dpx)
          ELSE BestWalkLastWins(Tail(candidates), best, bestD)

\* the loop of pickNearestFeature: best is the id of the best feature so far
\* (0 for null), bestD its distance
RECURSIVE BestWalk(_, _, _)
BestWalk(candidates, best, bestD) ==
  IF candidates = <<>> THEN [threw |-> FALSE, feature |-> best, dpx |-> bestD]
  ELSE LET f == Head(candidates)
           dpx == pixelDistancePointToFeature(f)
       IN IF dpx < bestD THEN BestWalk(Tail(candidates), f.id, dpx)
          ELSE BestWalk(Tail(candidates), best, bestD)

\* mutant of pickNearestFeature: with an index the hits are the candidates
\* even when the search returns none
pickNearestFeatureHitsOnly(allFeatures, spatialIndex) ==
  IF spatialIndex.present THEN BestWalk(spatialIndex.hits, 0, Infinity)
  ELSE BestWalk(CandidatesOf(allFeatures, spatialIndex).items, 0, Infinity)

\* `for (const f of candidates)` throws a TypeError on a value that is not iterable
pickNearestFeature(allFeatures, spatialIndex) ==
  LET candidates == CandidatesOf(allFeatures, spatialIndex)
  IN IF ~candidates.iterable THEN [threw |-> TRUE, feature |-> 0, dpx |-> Infinity]
     ELSE BestWalk(candidates.items, 0, Infinity)

\* history: what pixelDistancePointToFeature returned for each candidate, in
\* the order the loop of pickNearestFeature called it
MeasuredBy(allFeatures, spatialIndex) ==
  LET candidates == CandidatesOf(allFeatures, spatialIndex)
  IN IF ~candidates.iterable THEN <<>>
     ELSE [k \in DOMAIN candidates.items |->
             pixelDistancePointToFeature(candidates.items[k])]

PickIdle == [all |-> FeatureList(FALSE, <<>>), index |-> SpatialIndex(FALSE, <<>>),
             called |-> FALSE, measured |-> <<>>,
             out |-> [threw |-> FALSE, feature |-> 0, dpx |-> Infinity]]

\* one call of the resolver on the drawn feature list and index
PickCall ==
  /\ ~pick.called
  /\ pick' = [pick EXCEPT !.called = TRUE,
                          !.measured = MeasuredBy(pick.all, pick.index),
                          !.out = pickNearestFeature(pick.all, pick.index)]
  /\ UNCHANGED <<appVars, alg, heap, scalar, daily>>

(***************************************************************************)
(* Object-identity harness                                                 *)
(***************************************************************************)
\* The ranges of one line with the identity of every [start, end] array:
\* cells[id] is the content of pair object id, live the ids held by the live
\* feature's ranges, stack the ids held by each snapshot on the undo stack.
\* Status strings are immutable values and are not tracked here.
HeapIdle == [cells |-> <<>>, live |-> <<>>, stack |-> <<>>, ops |-> <<>>]

Deref(cells, ids) == [k \in DOMAIN ids |-> cells[ids[k]]]

\* mutant of HeapClone: the snapshot holds the live pair objects themselves
HeapCloneByReference(cells, ids) == [cells |-> cells, ids |-> ids]

\* cloneData: JSON.parse(JSON.stringify(state)) allocates every pair anew
HeapClone(cells, ids) ==
  [cells |-> cells \o Deref(cells, ids),
   ids |-> [k \in DOMAIN ids |-> Len(cells) + k]]

\* pushUndoSnapshot(features) on the heap
HeapPush(h) ==
  LET c == HeapClone(h.cells, h.live)
      next == Append(h.stack, c.ids)
  IN [h EXCEPT !.cells = c.cells,
               !.stack = IF Len(next) > MAX_UNDO THEN Tail(next) ELSE next]

\* new pair objects holding the given values
HeapAlloc(h, values) ==
  [h EXCEPT !.cells = h.cells \o values,
            !.live = [k \in DOMAIN values |-> Len(h.cells) + k]]

\* mergeRanges([...currentRanges, [start, end]]): the new pair is allocated,
\* mergeRanges writes merged ends into the pair objects it keeps, and the
\* result holds those same objects
HeapMergeRanges(h, b) ==
  LET cells1 == Append(h.cells, b)
      combined == Append(h.live, Len(cells1))
      values == Deref(cells1, combined)
      out == mergeTagged(values)
      written == MutatedByMerge(values)
  IN [h EXCEPT !.cells = [id \in DOMAIN cells1 |->
                            IF \E k \in DOMAIN combined : combined[k] = id
                            THEN written[CHOOSE k \in DOMAIN combined : combined[k] = id]
                            ELSE cells1[id]],
               !.live = [k \in DOMAIN out |-> combined[out[k][3]]]]

\* brush paint: setProgressForLine stores a copy of every pair of the result
HeapPaintRanges(h, b) ==
  LET m == HeapMergeRanges(h, b) IN HeapAlloc(m, Deref(m.cells, m.live))

\* box select: the updater stores the result of mergeRanges as it is
HeapSelectRanges(h, b) == HeapMergeRanges(h, b)

\* brush erase (copied by setProgressForLine) and box deselect (every piece
\* pushed as a new array): the result holds new pair objects only
HeapEraseRanges(h, b) ==
  HeapAlloc(h, EraseRanges(Deref(h.cells, h.live), b[1], b[2]))

\* first: the event is the one that calls beginUndoableAction
HeapBegin(h, first) == IF first THEN HeapPush(h) ELSE h

HeapBrushes == { <<0, 1>>, <<1, 3>>, <<2, 7>>, <<6, 7>> }

HeapPaint ==
  /\ Len(heap.ops) < MaxHeapOps
  /\ \E b \in HeapBrushes, first \in BOOLEAN :
       heap' = [HeapPaintRanges(HeapBegin(heap, first), b)
                  EXCEPT !.ops = Append(heap.ops, "paint")]
  /\ UNCHANGED <<appVars, alg, pick, scalar, daily>>

HeapSelect ==
  /\ Len(heap.ops) < MaxHeapOps
  /\ \E b \in HeapBrushes :
       heap' = [HeapSelectRanges(HeapPush(heap), b)
                  EXCEPT !.ops = Append(heap.ops, "select")]
  /\ UNCHANGED <<appVars, alg, pick, scalar, daily>>

HeapErase ==
  /\ Len(heap.ops) < MaxHeapOps
  /\ \E b \in HeapBrushes, first \in BOOLEAN :
       heap' = [HeapEraseRanges(HeapBegin(heap, first), b)
                  EXCEPT !.ops = Append(heap.ops, "erase")]
  /\ UNCHANGED <<appVars, alg, pick, scalar, daily>>

\* clearAll: snapshot, then every feature gets a new empty ranges array
HeapReset ==
  /\ Len(heap.ops) < MaxHeapOps
  /\ heap' = [HeapPush(heap) EXCEPT !.live = <<>>, !.ops = Append(heap.ops, "reset")]
  /\ UNCHANGED <<appVars, alg, pick, scalar, daily>>

\* undoLast: the popped snapshot object becomes the live feature set
HeapUndo ==
  /\ Len(heap.ops) < MaxHeapOps
  /\ heap' = IF heap.stack = <<>>
             THEN [heap EXCEPT !.ops = Append(heap.ops, "undo")]
             ELSE [heap EXCEPT !.live = Last(heap.stack),
                               !.stack = ButLast(heap.stack),
                               !.ops = Append(heap.ops, "undo")]
  /\ UNCHANGED <<appVars, alg, pick, scalar, daily>>

(***************************************************************************)
(* Interval-algebra harness: the pure operations applied to drawn inputs   *)
(***************************************************************************)
\* missing: the input list is null or undefined rather than an array
AlgIdle == [xs |-> <<>>, missing |-> FALSE, brush |-> <<>>, out |-> <<>>,
            prev |-> <<>>, ops |-> <<>>]

GridPairs == {<<a, b>> : a \in 0..GridMax, b \in 0..GridMax} \cap
             {p \in (0..GridMax) \X (0..GridMax) : p[1] < p[2]}

RangeLists == UNION {[1..n -> GridPairs] : n \in 0..MaxLen}

\* sorted by start, every entry non-empty and inside [0, 1], and every gap
\* between consecutive entries wider than the tolerance
Normalized(ranges) ==
  /\ \A i \in DOMAIN ranges : 0 <= ranges[i][1] /\ ranges[i][1] < ranges[i][2]
                              /\ ranges[i][2] <= ONE
  /\ \A i \in 1..(Len(ranges) - 1) : ranges[i + 1][1] > ranges[i][2] + EPSILON

AlgMerge ==
  /\ alg.ops \in {<<>>, <<"merge">>}
  /\ alg' = [alg EXCEPT !.prev = alg.out,
                        !.out = mergeRangesOrEmpty(alg.missing /\ alg.ops = <<>>, alg.out),
                        !.ops = Append(alg.ops, "merge")]
  /\ UNCHANGED <<appVars, heap, pick, scalar, daily>>

AlgPaint ==
  /\ alg.ops = <<>>
  /\ Normalized(alg.xs)
  /\ \E b \in GridPairs :
       alg' = [alg EXCEPT !.brush = b, !.prev = alg.out,
                          !.out = PaintRanges(alg.out, b[1], b[2]),
                          !.ops = <<"paint">>]
  /\ UNCHANGED <<appVars, heap, pick, scalar, daily>>

AlgErase ==
  /\ Normalized(alg.xs)
  /\ \/ /\ alg.ops = <<"paint">>
        /\ alg' = [alg EXCEPT !.prev = alg.out,
                              !.out = EraseRanges(alg.out, alg.brush[1], alg.brush[2]),
                              !.ops = <<"paint", "erase">>]
     \/ /\ alg.ops = <<>>
        /\ \E b \in GridPairs :
             alg' = [alg EXCEPT !.brush = b, !.prev = alg.out,
                                !.out = EraseRanges(RangesOrEmpty(alg.missing, alg.out),
                                                    b[1], b[2]),
                                !.ops = <<"erase">>]
  /\ UNCHANGED <<appVars, heap, pick, scalar, daily>>

(***************************************************************************)
(* Inputs                                                                  *)
(***************************************************************************)
\* Four trench segments and one fence line.  The first and third segment
\* start within 2 m of each other and form line 0 (4000 m, the length of its
\* first member; the other member is 4500 m long); the second is line 1 (1 m)
\* and the fourth is line 2 (100 m).
Geometry(progress, status) ==
  << RawFeature("trenches", 0, 4000, 4000, <<>>, progress > 0, progress, status),
     RawFeature("trenches", 9000, 9001, 1, <<>>, progress > 0, 0, status),
     RawFeature("fence", 0, 10, 10, <<>>, FALSE, 0, ""),
     RawFeature("trenches", 1, 4500, 4500, <<>>, progress > 0, progress, status),
     RawFeature("trenches", 20000, 20100, 100, <<>>, progress > 0, 0, status) >>

Files == {"fresh", "legacy", "empty"}

\* fresh: no stored progress; legacy: written by the scalar-progress build
\* (progress 0.5 on line 0, 0 on line 1, no status); empty: no trench layer
FileContent(name) ==
  IF name = "fresh" THEN Geometry(0, "")
  ELSE IF name = "legacy" THEN Geometry(2000, "")
  ELSE << RawFeature("fence", 0, 10, 10, <<>>, FALSE, 0, "") >>

Buttons == {0, 1, 2}

Points == { Point(1, 0, 2000), Point(2, 15, 2002), Point(3, 3, 0), Point(1, 16, 2000) }

BrushPoints == { Point(1, 0, 2000), Point(2, 15, 2001), Point(1, 3, 2002), Point(4, 0, 50) }

PointSeqs(P) == UNION {[1..n -> P] : n \in 0..MaxSteps}

BoxSizes == {2, 3}

BoxReleases ==
  { <<Clip(TRUE, <<<<0, 2000>>>>), Clip(TRUE, <<>>), Clip(FALSE, <<>>), Clip(FALSE, <<>>)>>,
    <<Clip(FALSE, <<>>), Clip(TRUE, <<<<4200, 4400>>>>), Clip(TRUE, <<<<1, 0>>>>),
      Clip(FALSE, <<>>)>>,
    <<Clip(TRUE, <<<<0, 1000>>, <<3000, 1500>>>>), Clip(FALSE, <<>>), Clip(FALSE, <<>>),
      Clip(TRUE, <<>>)>> }

(***************************************************************************)
(* Spec: the application, either build, from before the load effect        *)
(***************************************************************************)
Init ==
  /\ features = <<>>
  /\ undoStack = <<>>
  /\ undoCount = 0
  /\ source = "none"
  /\ panel \in {"brush", "box"}
  /\ isDown = FALSE
  /\ downButton = 0
  /\ actionStarted = FALSE
  /\ buttonHeld = FALSE
  /\ gesture = NoGesture
  /\ boxDragging = FALSE
  /\ boxButton = 0
  /\ selectionBox = NoBox
  /\ alg = AlgIdle
  /\ heap = HeapIdle
  /\ scalar = ScalarIdle
  /\ daily = DailyIdle
  /\ pick = PickIdle

Load == \E name \in Files : loadFile(name, FileContent(name))

MouseDown ==
  /\ Len(undoStack) < MaxDepth
  /\ \E btn \in Buttons, pt \in Points : onBrushMouseDown(btn, pt)

MouseMove == \E pts \in PointSeqs(Points) : onBrushMouseMove(pts)

MouseUp == onBrushMouseUp

ReleaseOutside == releaseOutsideMap

Undo == undoLast

Reset ==
  /\ Len(undoStack) < MaxDepth
  /\ \E confirmed \in BOOLEAN : clearAll(confirmed)

BoxDown ==
  /\ Len(undoStack) < MaxDepth
  /\ \E button \in Buttons : onBoxMouseDown(button)

BoxMove == \E w \in BoxSizes, h \in BoxSizes : onBoxMouseMove(w, h)

BoxUp == \E clips \in BoxReleases : onBoxMouseUp(clips)

Next ==
  \/ Load
  \/ MouseDown
  \/ MouseMove
  \/ MouseUp
  \/ ReleaseOutside
  \/ Undo
  \/ Reset
  \/ BoxDown
  \/ BoxMove
  \/ BoxUp

Spec == Init /\ [][Next]_vars

(***************************************************************************)
(* BrushSpec: brush point-events on freshly loaded features                *)
(***************************************************************************)
LoadedFresh ==
  /\ features = normalizeGeoJSON(FileContent("fresh"))
  /\ undoStack = <<>>
  /\ undoCount = 0
  /\ source = "fresh"
  /\ panel = "brush"
  /\ isDown = FALSE
  /\ downButton = 0
  /\ actionStarted = FALSE
  /\ buttonHeld = FALSE
  /\ gesture = NoGesture
  /\ boxDragging = FALSE
  /\ boxButton = 0
  /\ selectionBox = NoBox
  /\ alg = AlgIdle
  /\ heap = HeapIdle
  /\ scalar = ScalarIdle
  /\ daily = DailyIdle
  /\ pick = PickIdle

BrushDown ==
  /\ Len(undoStack) < BrushDepth
  /\ \E btn \in {0, 2}, pt \in BrushPoints : onBrushMouseDown(btn, pt)

BrushMove == \E pts \in PointSeqs(BrushPoints) : onBrushMouseMove(pts)

BrushUp == onBrushMouseUp

BrushNext == BrushDown \/ BrushMove \/ BrushUp

BrushSpec == LoadedFresh /\ [][BrushNext]_vars

(***************************************************************************)
(* UndoSpec: forward painting of line 0, one brush width per gesture, and  *)
(* undo; long enough to overflow the undo stack                            *)
(***************************************************************************)
Frontier ==
  IF features[1].ranges = <<>> THEN 2000 ELSE Last(features[1].ranges)[2]

ForwardDown ==
  /\ features[1].ranges = <<>> \/ Frontier < 2000 + MaxChain
  /\ onBrushMouseDown(0, Point(1, 0, Frontier))

ForwardUp == onBrushMouseUp

\* mutant of UndoKey: neither `if (!prev.length)` nor `if (snapshot)` guards the pop
UndoKeyUnguarded ==
  /\ IF undoStack = <<>>
     THEN /\ features' = <<>>
          /\ UNCHANGED <<undoStack, undoCount>>
     ELSE /\ undoStack' = ButLast(undoStack)
          /\ undoCount' = Len(undoStack) - 1
          /\ features' = Last(undoStack)
  /\ gesture' = [NoGesture EXCEPT !.undo = IF undoStack = <<>> THEN "nothing"
                                           ELSE "restored"]
  /\ UNCHANGED <<source, panel, isDown, downButton, actionStarted, buttonHeld,
                 boxDragging, boxButton, selectionBox, alg, heap, pick, scalar, daily>>

UndoKey == undoLast

UndoNext == ForwardDown \/ ForwardUp \/ UndoKey

UndoSpec == LoadedFresh /\ [][UndoNext]_vars

(***************************************************************************)
(* DragSpec: brush gestures on freshly loaded features with Ctrl+Z or the  *)
(* Undo button at any moment, the button held or not; every release is a   *)
(* mouseup on the map                                                       *)
(***************************************************************************)
DragDown ==
  /\ Len(undoStack) < MaxDepth
  /\ \E btn \in {0, 2}, pt \in BrushPoints : onBrushMouseDown(btn, pt)

DragNext == DragDown \/ BrushMove \/ BrushUp \/ UndoKey

DragSpec == LoadedFresh /\ [][DragNext]_vars

(***************************************************************************)
(* AlgSpec: the interval algebra on every list of up to MaxLen ranges      *)
(***************************************************************************)
AlgInit ==
  /\ features = <<>>
  /\ undoStack = <<>>
  /\ undoCount = 0
  /\ source = "none"
  /\ panel = "brush"
  /\ isDown = FALSE
  /\ downButton = 0
  /\ actionStarted = FALSE
  /\ buttonHeld = FALSE
  /\ gesture = NoGesture
  /\ boxDragging = FALSE
  /\ boxButton = 0
  /\ selectionBox = NoBox
  /\ heap = HeapIdle
  /\ scalar = ScalarIdle
  /\ daily = DailyIdle
  /\ pick = PickIdle
  /\ \E xs \in RangeLists, missing \in BOOLEAN :
       /\ missing => xs = <<>>
       /\ alg = [AlgIdle EXCEPT !.xs = xs, !.missing = missing, !.out = xs, !.prev = xs]

AlgNext == AlgMerge \/ AlgPaint \/ AlgErase

AlgSpec == AlgInit /\ [][AlgNext]_vars

(***************************************************************************)
(* ProjSpec: brush point-events on a single line of every length in        *)
(* MetersValues, at every distance in DistValues                           *)
(***************************************************************************)
\* lengths in metres that turfLength stores as `meters`: 0 for a line whose
\* vertices coincide (0 also stands for a missing value, both are falsy)
MetersValues == {0, 1, 3, 100, 4000}

\* arc-length distances in metres from the line's start to the snapped point
DistValues == {0, 1, 2, 50, 99, 100, 101, 2000, 3999, 4000, 4001, 9000}

SingleLine(m) == << RawFeature("trenches", 0, m, m, <<>>, FALSE, 0, "") >>

ProjInit ==
  /\ \E m \in MetersValues : features = normalizeGeoJSON(SingleLine(m))
  /\ undoStack = <<>>
  /\ undoCount = 0
  /\ source = "single"
  /\ panel = "brush"
  /\ isDown = FALSE
  /\ downButton = 0
  /\ actionStarted = FALSE
  /\ buttonHeld = FALSE
  /\ gesture = NoGesture
  /\ boxDragging = FALSE
  /\ boxButton = 0
  /\ selectionBox = NoBox
  /\ alg = AlgIdle
  /\ heap = HeapIdle
  /\ scalar = ScalarIdle
  /\ daily = DailyIdle
  /\ pick = PickIdle

ProjDown ==
  /\ Len(undoStack) < ProjDepth
  /\ \E btn \in {0, 2}, d \in DistValues : onBrushMouseDown(btn, Point(1, 0, d))

ProjUp == onBrushMouseUp

ProjNext == ProjDown \/ ProjUp

ProjSpec == ProjInit /\ [][ProjNext]_vars

\* the application variables while a harness runs
HarnessInit ==
  /\ features = <<>>
  /\ undoStack = <<>>
  /\ undoCount = 0
  /\ source = "none"
  /\ panel = "brush"
  /\ isDown = FALSE
  /\ downButton = 0
  /\ actionStarted = FALSE
  /\ buttonHeld = FALSE
  /\ gesture = NoGesture
  /\ boxDragging = FALSE
  /\ boxButton = 0
  /\ selectionBox = NoBox

(***************************************************************************)
(* ScalarSpec: the scalar-progress build from before its load effect       *)
(***************************************************************************)
\* points on line 0 (features 1 and 2, 4000 m), one beyond its end, the end
\* of line 1 (feature 3, 1 m), points on line 2 (feature 4, 100 m), and a
\* point out of reach
ScalarPoints ==
  { Point(1, 0, 1000), Point(1, 5, 2200), Point(2, 10, 2400), Point(1, 0, 5000),
    Point(3, 0, 1), Point(4, 0, 25), Point(4, 15, 50), Point(1, 16, 3000) }

ScalarInit ==
  /\ HarnessInit
  /\ alg = AlgIdle
  /\ heap = HeapIdle
  /\ pick = PickIdle
  /\ scalar = ScalarIdle
  /\ daily = DailyIdle

ScalarNext ==
  \/ \E name \in {"fresh", "legacy"} : scalarLoad(FileContent(name))
  \/ \E btn \in Buttons, pt \in ScalarPoints : scalarMouseDown(btn, pt)
  \/ \E pts \in PointSeqs(ScalarPoints) : scalarMouseMove(pts)
  \/ scalarMouseUp

ScalarSpec == ScalarInit /\ [][ScalarNext]_vars

(***************************************************************************)
(* DailySpec: useDailyLog with up to MaxRecords records between resets,    *)
(* from the first render of a session; an earlier session may have stored  *)
(* a record                                                                *)
(***************************************************************************)
DailyRecords == {DailyRecord("d1", 0), DailyRecord("d1", 250), DailyRecord("d2", 250)}

DailyInit ==
  /\ HarnessInit
  /\ alg = AlgIdle
  /\ heap = HeapIdle
  /\ pick = PickIdle
  /\ scalar = ScalarIdle
  /\ \E earlier \in {<<>>} \cup {<<r>> : r \in DailyRecords} :
       daily = [DailyIdle EXCEPT
                  !.stored = IF earlier = <<>> THEN DailyIdle.stored
                             ELSE [has |-> TRUE, text |-> jsonStringify(earlier)],
                  !.added = earlier]

DailyNext ==
  \/ /\ Len(daily.added) < MaxRecords
     /\ Len(daily.closure) < MaxRecords
     /\ \E record \in DailyRecords : addRecord(record)
  \/ dailyRender
  \/ resetLog
  \/ dailyMount

DailySpec == DailyInit /\ [][DailyNext]_vars

(***************************************************************************)
(* PickSpec: one resolver call on every feature list of up to MaxCand      *)
(* features, with and without a spatial index built from that list         *)
(***************************************************************************)
\* pixel distances from the query point to a segment: inside the tolerance
\* (1, 10, 14), just outside (16) and far (20)
SegDists == {1, 10, 14, 16, 20}

SegLists == UNION {[1..n -> SegDists] : n \in 0..MaxSegs}

\* the features of the index entries a search returns: any of the list, in list order
RECURSIVE Picked(_, _)
Picked(items, keep) ==
  IF items = <<>> THEN <<>>
  ELSE (IF Head(items).id \in keep THEN <<Head(items)>> ELSE <<>>)
       \o Picked(Tail(items), keep)

\* every list of up to MaxCand features (or no list), the index absent or
\* built from that list and returning any of its features
PickInit ==
  /\ HarnessInit
  /\ alg = AlgIdle
  /\ heap = HeapIdle
  /\ scalar = ScalarIdle
  /\ daily = DailyIdle
  /\ \E n \in 0..MaxCand : \E g \in [1..n -> SegLists] :
       \E isNull \in BOOLEAN, present \in BOOLEAN : \E keep \in SUBSET (1..n) :
         /\ isNull => n = 0
         /\ ~present => keep = {}
         /\ LET items == [i \in 1..n |-> Candidate(i, g[i])]
            IN pick = [PickIdle EXCEPT !.all = FeatureList(isNull, items),
                                       !.index = SpatialIndex(present, Picked(items, keep))]

PickNext == PickCall

PickSpec == PickInit /\ [][PickNext]_vars

(***************************************************************************)
(* HeapSpec: paint, box select, erase, reset and undo with the identity of *)
(* the pair objects                                                        *)
(***************************************************************************)
HeapInit ==
  /\ HarnessInit
  /\ alg = AlgIdle
  /\ heap = HeapIdle
  /\ pick = PickIdle
  /\ scalar = ScalarIdle
  /\ daily = DailyIdle

HeapNext == HeapPaint \/ HeapSelect \/ HeapErase \/ HeapReset \/ HeapUndo

HeapSpec == HeapInit /\ [][HeapNext]_vars

TypeOK ==
  /\ undoCount \in 0..MAX_UNDO
  /\ panel \in {"brush", "box"}
  /\ source \in Files \cup {"none", "single"}
  /\ isDown \in BOOLEAN /\ actionStarted \in BOOLEAN /\ buttonHeld \in BOOLEAN
  /\ downButton \in Buttons /\ boxButton \in Buttons /\ boxDragging \in BOOLEAN
  /\ gesture.phase \in {"idle", "active", "completed"}
  /\ gesture.undo \in {"none", "restored", "nothing"}
  /\ \A i \in DOMAIN features : features[i].status \in {"pending", "in_progress", "done"}

(***************************************************************************)
(* Claims                                                                  *)
(***************************************************************************)

\* C1: after any sequence of brush paint and erase point-events that starts
\* from empty ranges, every feature's ranges list is sorted by start, every
\* entry [a,b] has 0 <= a < b <= 1, entries do not overlap and consecutive
\* entries are more than EPSILON apart.
C1_RangesStayNormalized ==
  \A i \in DOMAIN features : Normalized(features[i].ranges)

\* C2: in every reachable state each feature's status is the function of its
\* ranges: done iff coverage >= 0.99, in_progress iff 0 < coverage < 0.99,
\* pending iff coverage = 0.
C2_StatusFollowsRanges ==
  \A i \in DOMAIN features :
    LET c == Coverage(features[i].ranges) IN
    /\ features[i].status = "done" <=> c >= DONE_THRESHOLD
    /\ features[i].status = "in_progress" <=> (0 < c /\ c < DONE_THRESHOLD)
    /\ features[i].status = "pending" <=> c = 0

\* C3: for a normalized list R and a range [a,b], painting [a,b] and then
\* erasing the same [a,b] yields a list whose coverage is at most coverage(R).
C3_PaintThenEraseNoGain ==
  (alg.ops = <<"paint", "erase">>) => Coverage(alg.out) <= Coverage(alg.xs)

\* C4: mergeRanges is idempotent: merging the result of a merge again
\* returns the same list.
C4_MergeIdempotent ==
  (alg.ops = <<"merge", "merge">>) => alg.out = alg.prev

C4_Witness ==
  /\ alg.ops = <<"merge", "merge">>
  /\ alg.prev # alg.xs
  /\ Len(alg.prev) = 2

\* C5: the result of mergeRanges is sorted by start, no two entries overlap,
\* every gap between consecutive entries is wider than EPSILON, every input
\* range lies inside one entry, an entry starts at an input's start and ends
\* at the largest end of the inputs it holds, and an input is absorbed only
\* when it starts no more than EPSILON after the end of an input that
\* precedes it in the same entry.
C5_MergeResultCanonical ==
  (alg.ops = <<"merge">>) =>
    LET x == alg.prev
        o == alg.out
        Inside(k, i) == o[i][1] <= x[k][1] /\ x[k][2] <= o[i][2]
    IN /\ \A i \in 1..(Len(o) - 1) :
            /\ o[i][1] <= o[i + 1][1]
            /\ o[i + 1][1] > o[i][2]
            /\ o[i + 1][1] - o[i][2] > EPSILON
       /\ \A k \in DOMAIN x : \E i \in DOMAIN o : Inside(k, i)
       /\ \A i \in DOMAIN o :
            /\ \E k \in DOMAIN x : Inside(k, i) /\ x[k][1] = o[i][1]
            /\ \E k \in DOMAIN x : Inside(k, i) /\ x[k][2] = o[i][2]
       /\ \A k \in DOMAIN x : \A i \in DOMAIN o :
            (Inside(k, i) /\ x[k][1] > o[i][1]) =>
              \E m \in DOMAIN x : /\ m # k
                                  /\ Inside(m, i)
                                  /\ x[m][1] <= x[k][1]
                                  /\ x[k][1] <= x[m][2] + EPSILON

C5_Witness ==
  /\ alg.ops = <<"merge">>
  /\ Len(alg.prev) = 3
  /\ Len(alg.out) = 1
  /\ alg.prev[1][1] > alg.prev[2][1]
  /\ \E k \in DOMAIN alg.prev, m \in DOMAIN alg.prev :
       alg.prev[m][1] = alg.prev[k][2] + EPSILON

\* C6: every brush gesture that mutates ranges pushes, before its first
\* mutation, a snapshot equal to the feature set as it was before the
\* gesture: the mousedown that starts painting leaves that feature set on
\* top of the undo stack.
C6_SnapshotBeforeFirstMutation ==
  [][ (~buttonHeld /\ buttonHeld' /\ gesture'.phase = "active")
        => (undoStack' = Append(undoStack, features)) ]_vars

\* C7: within one gesture at most one snapshot is pushed however many
\* point-events occur (a mousemove pushes none, a mousedown at most one and
\* none while the flag is set), none is pushed while the feature set is
\* empty, and mouseup clears the flag so that the next mousedown on a
\* feature pushes again.
C7_OneSnapshotPerGesture ==
  [][ /\ MouseMove => undoStack' = undoStack
      /\ MouseDown => /\ Len(undoStack') <= Len(undoStack) + 1
                      /\ actionStarted => undoStack' = undoStack
                      /\ (~actionStarted /\ gesture'.phase = "active")
                           => undoStack' = Append(undoStack, features)
      /\ (MouseUp /\ isDown) => ~actionStarted'
      /\ (features = <<>>) => undoStack' = undoStack ]_vars

C7_Witness ==
  /\ gesture.phase = "active"
  /\ source = "fresh"
  /\ Len(undoStack) = 1
  /\ features[1].ranges # <<>>
  /\ features[3].ranges # <<>>

\* C8: after a completed brush gesture (mousedown on a feature, moves,
\* mouseup) a single undo restores every feature's ranges and status to
\* their values before the mousedown.
C8_GestureIsOneUndoUnit ==
  [][ (gesture.phase = "completed" /\ Undo) => features' = gesture.base ]_vars

\* C9: undo is last-in-first-out: it removes exactly the most recent
\* snapshot and makes the live feature set equal to the state captured by
\* that push, which in forward painting is the line one brush step shorter;
\* repeated undos walk back through the pushes in reverse order.
C9_UndoIsLastInFirstOut ==
  [][ (UndoKey /\ undoStack # <<>>) =>
        /\ undoStack' = SubSeq(undoStack, 1, Len(undoStack) - 1)
        /\ features' = undoStack[Len(undoStack)]
        /\ features'[1].ranges = IF Frontier = 2001 THEN <<>>
                                 ELSE << <<1999, Frontier - 1>> >> ]_vars

C9_Witness ==
  /\ isDown
  /\ gesture.phase = "idle"
  /\ Len(undoStack) >= 2
  /\ Len(undoStack) < MAX_UNDO

\* C10: the undo stack never holds more than 50 snapshots, and a push onto a
\* stack of 50 discards the oldest and keeps the other 49 in order with the
\* new snapshot on top.
C10_UndoStackBounded ==
  /\ [](Len(undoStack) <= MAX_UNDO /\ undoCount <= MAX_UNDO)
  /\ [][ (Len(undoStack) = MAX_UNDO /\ ForwardDown) =>
           undoStack' = Tail(undoStack) \o <<features>> ]_vars

C10_Witness ==
  /\ Len(undoStack) = MAX_UNDO
  /\ undoStack[1][1].ranges # <<>>

\* C11: an undo on an empty stack is a no-op: the feature set, the undo stack
\* and the undo count are unchanged; in particular the undo that follows k
\* pushes and k undos changes nothing.
C11_UndoOnEmptyIsNoOp ==
  [][ (undoStack = <<>> /\ UndoKey) =>
        /\ features' = features
        /\ undoStack' = undoStack
        /\ undoCount' = undoCount ]_vars

C11_Witness ==
  /\ gesture.undo = "nothing"
  /\ undoStack = <<>>
  /\ undoCount = 0
  /\ features # <<>>
  /\ \A i \in DOMAIN features : features[i].ranges = <<>>

\* C12: every snapshot on the undo stack is independent of the live feature
\* set: a snapshot holds the ranges the live set had when it was pushed, and
\* no later paint, erase, box selection, reset or undo changes the ranges
\* stored in a snapshot that stays on the stack.
C12_SnapshotsAreIndependent ==
  [][ /\ \A i \in DOMAIN heap.stack :
           i \in DOMAIN heap'.stack =>
             Deref(heap'.cells, heap'.stack[i]) = Deref(heap.cells, heap.stack[i])
      /\ Len(heap'.stack) > Len(heap.stack) =>
           Deref(heap'.cells, Last(heap'.stack)) = Deref(heap.cells, heap.live) ]_vars

\* a box select has written a merged end into the pair object the live set
\* held when the second snapshot was pushed
C12_Witness ==
  /\ heap.ops = <<"select", "select">>
  /\ Len(heap.stack) = 2
  /\ Deref(heap.cells, heap.stack[2]) = << <<0, 1>> >>
  /\ Deref(heap.cells, heap.live) = << <<0, 3>> >>
  /\ heap.cells[1] = <<0, 3>>

\* C13: when one paint mousemove yields n > 1 interpolated points that all
\* hit the same feature, the feature's ranges after the event cover the brush
\* range of every one of the n points.
Covered(ranges, a, b) ==
  \E i \in DOMAIN ranges : ranges[i][1] <= a /\ b <= ranges[i][2]

SameFeatureHits(pts) ==
  /\ Len(pts) > 1
  /\ \A k \in DOMAIN pts : IsHit(pts[k]) /\ pts[k].feat = pts[1].feat

C13_InterpolatedPointsAllCovered ==
  [][ \A pts \in PointSeqs(BrushPoints) :
        (isDown /\ downButton = 0 /\ SameFeatureHits(pts) /\ onBrushMouseMove(pts))
          => \A k \in DOMAIN pts :
               Covered(features'[pts[1].feat].ranges,
                       StartP(features[pts[1].feat], pts[k].dist),
                       EndP(features[pts[1].feat], pts[k].dist)) ]_vars

\* C14: when the button is released outside the map during a brush gesture
\* the gesture ends as by a mouseup: both flags are cleared, a later
\* mousemove with no button held mutates nothing, and the next mousedown on a
\* feature pushes a new snapshot.
C14_ReleaseOutsideEndsGesture ==
  [][ /\ ReleaseOutside => (~isDown' /\ ~actionStarted')
      /\ (~buttonHeld /\ MouseMove) => features' = features
      /\ (MouseDown /\ gesture'.phase = "active")
           => undoStack' = Append(undoStack, features) ]_vars

Entries(ranges) == {ranges[i] : i \in DOMAIN ranges}

C16_EraseSubtractsBrushRange ==
  /\ (alg.ops # <<>> /\ Last(alg.ops) = "erase") =>
       LET r0 == alg.brush[1]
           r1 == alg.brush[2]
           apart == {c \in Entries(alg.prev) : c[2] < r0 \/ c[1] > r1}
           cut == Entries(alg.prev) \ apart
           pieces == {<<c[1], r0>> : c \in {x \in cut : x[1] < r0}}
                     \cup {<<r1, c[2]>> : c \in {x \in cut : x[2] > r1}}
       IN /\ Entries(alg.out) = apart \cup pieces
          /\ \A e \in Entries(alg.out) : e[1] < e[2]
          /\ \A e \in Entries(alg.out) : e[2] <= r0 \/ e[1] >= r1
          /\ \A c \in Entries(alg.prev) :
               /\ c[1] < r0 => Covered(alg.out, c[1], Min(c[2], r0))
               /\ c[2] > r1 => Covered(alg.out, Max(c[1], r1), c[2])
  /\ LET erased == EraseRanges(<< <<0, (6 * ONE) \div 10>> >>,
                               (2 * ONE) \div 10, (3 * ONE) \div 10)
     IN /\ erased = << <<0, (2 * ONE) \div 10>>, <<(3 * ONE) \div 10, (6 * ONE) \div 10>> >>
        /\ Coverage(erased) = ONE \div 2

\* the brush cut an entry in two
C16_Witness ==
  /\ alg.ops = <<"erase">>
  /\ alg.prev = << <<0, 7>> >>
  /\ alg.brush = <<2, 3>>
  /\ alg.out = << <<0, 2>>, <<3, 7>> >>

\* C17 as stated: painting at fraction 0.5 on a feature with meters = 100,
\* starting from empty ranges, yields ranges [[0.48, 0.52]], status
\* in_progress and coverage 0.04.
HalfwayOn100m(pt) ==
  /\ IsHit(pt)
  /\ features[pt.feat].meters = 100
  /\ features[pt.feat].ranges = <<>>
  /\ PointProg(features[pt.feat], pt.dist) = ONE \div 2
  /\ onBrushMouseDown(0, pt)

C17_PaintAtHalfOn100m_AsStated ==
  [][ \A pt \in BrushPoints :
        HalfwayOn100m(pt) =>
          /\ features'[pt.feat].ranges = << <<(48 * ONE) \div 100, (52 * ONE) \div 100>> >>
          /\ features'[pt.feat].status = "in_progress"
          /\ Coverage(features'[pt.feat].ranges) = (4 * ONE) \div 100 ]_vars

\* C17 amended: painting at fraction 0.5 on a feature with meters = 100,
\* starting from empty ranges, yields ranges [[0.49, 0.51]] (the brush is 2 m
\* long, 1 m to either side), status in_progress and coverage 0.02.
C17_PaintAtHalfOn100m ==
  [][ \A pt \in BrushPoints :
        HalfwayOn100m(pt) =>
          /\ features'[pt.feat].ranges = << <<(49 * ONE) \div 100, (51 * ONE) \div 100>> >>
          /\ features'[pt.feat].status = "in_progress"
          /\ Coverage(features'[pt.feat].ranges) = (2 * ONE) \div 100 ]_vars

C17_Witness ==
  /\ gesture.phase = "active"
  /\ downButton = 0
  /\ gesture.base[4].meters = 100
  /\ gesture.base[4].ranges = <<>>
  /\ features[4].ranges = << <<(49 * ONE) \div 100, (51 * ONE) \div 100>> >>

\* C18: the coverage used for the status and for the completed-length
\* summary is within [0, 1] for every reachable ranges list: the sum of
\* (end - start) over the ranges, clamped to [0, 1].
C18_CoverageWithinUnit ==
  \A i \in DOMAIN features :
    LET ranges == features[i].ranges IN
    /\ panel = "brush" => Coverage(ranges) \in 0..ONE
    /\ panel = "box" => boxCoverage(ranges) \in 0..ONE
    /\ FirstOfLine(features, i) =>
         /\ SummaryRatio(ranges) \in 0..ONE
         /\ SummaryRatio(ranges) = Coverage(ranges)

\* C19: the resolver called with an empty or null feature list, with or
\* without a spatial index, returns no feature and distance +infinity, and
\* does not throw.
C19_EmptyListResolvesToNone ==
  (pick.called /\ (pick.all.isNull \/ pick.all.items = <<>>)) =>
    pick.out = [threw |-> FALSE, feature |-> 0, dpx |-> Infinity]

C19_Witness ==
  /\ pick.called
  /\ pick.all.isNull
  /\ pick.index.present
  /\ pick.out.feature = 0

\* C20: the feature the resolver returns has the minimal exact distance: its
\* true minimum over all its segments is less than or equal to the true
\* minimum over all segments of every other candidate.
C20_ReturnsTrueNearest ==
  (pick.called /\ pick.out.feature # 0) =>
    LET candidates == CandidatesOf(pick.all, pick.index).items
        F == CHOOSE c \in Entries(candidates) : c.id = pick.out.feature
    IN \A G \in Entries(candidates) :
         \E i \in DOMAIN F.segs : \A j \in DOMAIN G.segs : F.segs[i] <= G.segs[j]

\* C21: when several candidates have the same measured distance the
\* resolver returns the one that comes first in the candidate list: the
\* returned candidate has the smallest measured distance, and every candidate
\* before it in the list measures strictly more.
C21_FirstCandidateWinsTies ==
  (pick.called /\ pick.out.feature # 0) =>
    LET candidates == CandidatesOf(pick.all, pick.index).items
        i == CHOOSE k \in DOMAIN candidates : candidates[k].id = pick.out.feature
    IN /\ pick.out.dpx = pick.measured[i]
       /\ \A k \in DOMAIN candidates : pick.measured[i] <= pick.measured[k]
       /\ \A k \in 1..(i - 1) : pick.measured[k] > pick.measured[i]

\* two candidates measure the same and the first one is returned
C21_Witness ==
  /\ pick.called
  /\ ~pick.index.present
  /\ Len(pick.all.items) = 2
  /\ pick.measured = <<14, 14>>
  /\ pick.out.feature = pick.all.items[1].id

\* C22: the point-to-polyline distance with early exit returns a value at or
\* below the tolerance or the exact minimum over all segments: when no
\* segment is within the tolerance the returned value is the true minimum,
\* and the returned value is <= tolerance iff the true minimum is.
C22_EarlyExitKeepsHitDecision ==
  pick.called =>
    LET candidates == CandidatesOf(pick.all, pick.index).items IN
    \A k \in DOMAIN candidates :
      LET segs == candidates[k].segs
          d == pick.measured[k]
          IsTrueMin(m) == IF segs = <<>> THEN m = Infinity
                          ELSE /\ \E j \in DOMAIN segs : segs[j] = m
                               /\ \A j \in DOMAIN segs : m <= segs[j]
          withinTolerance == \E j \in DOMAIN segs : segs[j] <= PIXEL_TOLERANCE
      IN /\ d <= PIXEL_TOLERANCE \/ IsTrueMin(d)
         /\ ~withinTolerance => IsTrueMin(d)
         /\ d <= PIXEL_TOLERANCE <=> withinTolerance

\* one candidate whose nearest segment is its second and is out of reach, and
\* one that exits early on its first segment although the second is nearer
C22_Witness ==
  /\ pick.called
  /\ Len(pick.measured) = 2
  /\ pick.all.items[1].segs = <<20, 16>> /\ pick.measured[1] = 16
  /\ pick.all.items[2].segs = <<14, 1>> /\ pick.measured[2] = 14

\* C23: a paint point-event does not mutate its input in place: the range
\* pairs held by the feature-set value that was current before the event are
\* unchanged after it; only the new feature set carries the new ranges.
C23_PaintLeavesInputUnchanged ==
  [][ HeapPaint => Deref(heap'.cells, heap.live) = Deref(heap.cells, heap.live) ]_vars

\* C24: paint, erase, box select/deselect and reset change only ranges and
\* status: every feature keeps its id, lineId, geometry, meters and bounding
\* box, and the number and order of the features are unchanged.
SameFrame(f, g) ==
  /\ f.id = g.id
  /\ f.lineId = g.lineId
  /\ f.geometry = g.geometry
  /\ f.meters = g.meters
  /\ f.bbox = g.bbox

C24_OnlyRangesAndStatusChange ==
  [][ (MouseDown \/ MouseMove \/ BoxUp \/ Reset) =>
        /\ Len(features') = Len(features)
        /\ \A i \in DOMAIN features : SameFrame(features'[i], features[i]) ]_vars

\* a box selection changed the ranges of one feature of line 0 and of no other
C24_Witness ==
  /\ panel = "box"
  /\ source = "fresh"
  /\ Len(undoStack) = 1
  /\ Len(features) = 4
  /\ features[1].ranges = << <<0, ONE \div 2>> >>
  /\ features[1].status = "in_progress"
  /\ features[2].ranges = <<>>

\* C25: a brush paint or erase that hits a feature with lineId L gives every
\* feature whose lineId is L the same new ranges and the same recomputed
\* status, and leaves every feature with a different lineId unchanged.
LinesHit(pts) == {features[pts[k].feat].lineId : k \in {j \in DOMAIN pts : IsHit(pts[j])}}

LineUpdated(pts, hit) ==
  \A i \in DOMAIN features :
    IF features[i].lineId \in LinesHit(pts)
    THEN /\ \A k \in DOMAIN features :
              features[k].lineId = features[i].lineId =>
                /\ features'[k].ranges = features'[i].ranges
                /\ features'[k].status = features'[i].status
         /\ features'[i].status = StatusOf(Coverage(features'[i].ranges))
         /\ features[i].lineId = features[hit.feat].lineId =>
              features'[i].ranges = features'[hit.feat].ranges
    ELSE features'[i] = features[i]

\* after a handler run with several point-events: a feature that changed
\* has the ranges and status of every feature of its line
LineConsistent ==
  \A i \in DOMAIN features :
    features'[i] # features[i] =>
      /\ \A k \in DOMAIN features :
           features[k].lineId = features[i].lineId =>
             /\ features'[k].ranges = features'[i].ranges
             /\ features'[k].status = features'[i].status
      /\ features'[i].status = StatusOf(Coverage(features'[i].ranges))

C25_WholeLineUpdated ==
  [][ /\ \A btn \in {0, 2}, pt \in Points :
           (IsHit(pt) /\ onBrushMouseDown(btn, pt)) => LineUpdated(<<pt>>, pt)
      /\ (MouseDown \/ MouseMove) => LineConsistent ]_vars

\* the second feature of line 0 was hit and the first one carries the same range
C25_Witness ==
  /\ panel = "brush"
  /\ source = "fresh"
  /\ gesture.phase = "active"
  /\ features[2].ranges = << <<2001, 2003>> >>
  /\ features[1].ranges = features[2].ranges
  /\ features[1].status = "in_progress"
  /\ features[3].ranges = <<>>

\* C26: candidate selection fails open: when the spatial index is absent or
\* its query returns no hit, the resolver measures the full feature list;
\* when the query returns at least one hit, only the hit features are
\* measured.  The feature returned is one of those measured, and one is
\* returned whenever one of them has a finite distance.
C26_CandidateSelectionFailsOpen ==
  pick.called =>
    LET full == IF pick.all.isNull THEN <<>> ELSE pick.all.items
        expected == IF pick.index.present /\ pick.index.hits # <<>>
                    THEN pick.index.hits ELSE full
    IN /\ ~pick.out.threw
       /\ Len(pick.measured) = Len(expected)
       /\ \A k \in DOMAIN expected :
            pick.measured[k] = pixelDistancePointToFeature(expected[k])
       /\ pick.out.feature # 0 =>
            \E k \in DOMAIN expected : expected[k].id = pick.out.feature
       /\ pick.out.feature = 0 <=>
            \A k \in DOMAIN expected : pick.measured[k] = Infinity

\* the index is there, its query returns nothing, and the second feature of
\* the full list is returned
C26_Witness ==
  /\ pick.called
  /\ pick.index.present
  /\ pick.index.hits = <<>>
  /\ Len(pick.all.items) = 2
  /\ Len(pick.measured) = 2
  /\ pick.out.feature = 2

\* C27: for every arc-length distance >= 0 and every stored meters value
\* (0 or missing is treated as 1) the projected fraction lies in [0, 1] and
\* the brush range derived from it satisfies 0 <= start < end <= 1; nothing
\* is divided by zero.  A paint on empty ranges stores exactly that range.
C27_ProjectionWithinUnit ==
  [][ \A btn \in {0, 2}, d \in DistValues :
        onBrushMouseDown(btn, Point(1, 0, d)) =>
          LET f == features[1]
              startP == StartP(f, d)
              endP == EndP(f, d)
          IN /\ TotalOf(f) > 0
             /\ f.meters = 0 => TotalOf(f) = 1
             /\ PointProg(f, d) \in 0..ONE
             /\ 0 <= startP /\ startP < endP /\ endP <= ONE
             /\ (btn = 0 /\ f.ranges = <<>>) =>
                  features'[1].ranges = << <<startP, endP>> >> ]_vars

\* a paint on a line of length 0: total is 1 and the brush covers it all
C27_Witness ==
  /\ source = "single"
  /\ gesture.phase = "active"
  /\ downButton = 0
  /\ features[1].meters = 0
  /\ gesture.base[1].ranges = <<>>
  /\ features[1].ranges = << <<0, ONE>> >>
  /\ features[1].status = "done"

\* C28: interval operations on an empty ranges list return an empty list
\* and never throw: mergeRanges of an empty or missing list is [], and
\* erasing any brush range from a feature with no ranges leaves its ranges
\* empty and its status pending.
C28_EmptyListStaysEmpty ==
  /\ (alg.ops = <<"merge">> /\ alg.xs = <<>>) => alg.out = <<>>
  /\ (alg.ops = <<"erase">> /\ alg.xs = <<>>) =>
       LET line == normalizeGeoJSON(SingleLine(100))
           after == setProgressForLine(line, line[1].lineId, alg.out)
       IN /\ alg.out = <<>>
          /\ after[1].ranges = <<>>
          /\ after[1].status = "pending"

\* a brush range was erased from a feature whose ranges are missing
C28_Witness ==
  /\ alg.ops = <<"erase">>
  /\ alg.missing
  /\ alg.brush = <<2, 3>>
  /\ alg.out = <<>>

\* C29: mergeRanges computes a union up to epsilon: every position covered
\* by an input range is covered by the output, every position covered by the
\* output is covered by an input range or lies in a gap of width at most
\* EPSILON between two input ranges, and so the coverage of the output is at
\* least the measure of the union of the inputs.  Endpoints are grid points,
\* so positions are the unit cells [c, c + 1] between them.
CellCovered(ranges, c) == Covered(ranges, c, c + 1)

InSmallGap(ranges, c) ==
  \E k \in DOMAIN ranges, m \in DOMAIN ranges :
    /\ ranges[k][2] <= c
    /\ c + 1 <= ranges[m][1]
    /\ ranges[m][1] - ranges[k][2] <= EPSILON

C29_MergeIsUnionUpToEpsilon ==
  (alg.ops = <<"merge">> /\ ~alg.missing) =>
    LET in == alg.prev
        out == alg.out
        cells == 0..(GridMax - 1)
    IN /\ \A c \in cells : CellCovered(in, c) => CellCovered(out, c)
       /\ \A c \in cells : CellCovered(out, c) =>
            (CellCovered(in, c) \/ InSmallGap(in, c))
       /\ SumLengths(out) >= Cardinality({c \in cells : CellCovered(in, c)})

\* unsorted input: a gap of exactly EPSILON is bridged
C29_Witness ==
  /\ alg.ops = <<"merge">>
  /\ alg.prev = << <<EPSILON + 1, EPSILON + 2>>, <<0, 1>> >>
  /\ alg.out = << <<0, EPSILON + 2>> >>

\* C30: a box select/deselect changes only the features that the rectangle
\* hits and whose clipped geometry is not empty: for each of them select
\* yields mergeRanges(old ranges plus the clip ranges), deselect yields the
\* old ranges with every clip range subtracted in turn, and the status is
\* recomputed from the result; every other feature is returned unchanged.
BoxApplies == boxDragging /\ selectionBox.set /\ selectionBox.w > 2 /\ selectionBox.h > 2

C30_BoxChangesOnlyClippedFeatures ==
  [][ \A clips \in BoxReleases :
        (BoxApplies /\ onBoxMouseUp(clips)) =>
          \A i \in DOMAIN features :
            LET old == features[i].ranges
                clipRanges == ClipRanges(clips[i].segs, TotalOf(features[i]))
                result == IF boxButton = 0 THEN mergeRanges(old \o clipRanges)
                          ELSE SubtractAll(old, clipRanges)
            IN IF clips[i].hit /\ clips[i].segs # <<>>
               THEN /\ features'[i].ranges = result
                    /\ features'[i].status = StatusOf(Coverage(result))
               ELSE features'[i] = features[i] ]_vars

\* a deselect with two clip pieces cut the stored range of the first member
\* of line 0 twice and left the second member as it was
C30_Witness ==
  /\ panel = "box"
  /\ source = "legacy"
  /\ boxButton = 2
  /\ Len(undoStack) = 1
  /\ undoStack[1][1].ranges = << <<0, ONE \div 2>> >>
  /\ features[1].ranges = << <<ONE \div 4, (3 * ONE) \div 8>> >>
  /\ features[1].status = "in_progress"
  /\ features[2].ranges = << <<0, ONE \div 2>> >>

\* C31: in the scalar-progress build a left-button paint point never
\* decreases a line's progress (it changes only when the new fraction exceeds
\* the current one), a right-button erase point sets it to the new fraction,
\* every feature sharing the lineId receives the same progress, and progress
\* stays within [0, 1].  After a handler run the line's progress is therefore
\* at least the fraction of every paint point that hit it, and the fraction
\* of the last erase point that hit it.
C31_ScalarPaintOnlyAdvances ==
  [][ LET HitsOnLine(pts, lineId) ==
            {k \in DOMAIN pts :
               IsHit(pts[k]) /\ scalar.features[pts[k].feat].lineId = lineId}
          ScalarPointsApplied(pts, btn) ==
            \A i \in DOMAIN scalar.features :
              LET f == scalar.features[i]
                  after == scalar'.features[i].progress
                  hits == HitsOnLine(pts, f.lineId)
              IN /\ btn = 0 =>
                      /\ after >= f.progress
                      /\ \A k \in hits :
                           after >= PointProg(scalar.features[pts[k].feat], pts[k].dist)
                 /\ (btn = 2 /\ hits # {}) =>
                      LET last == CHOOSE k \in hits : \A m \in hits : m <= k
                      IN after = PointProg(scalar.features[pts[last].feat],
                                           pts[last].dist)
                 /\ hits = {} => after = f.progress
                 /\ \A k \in DOMAIN scalar.features :
                      (scalar.features[k].lineId = f.lineId /\ hits # {})
                        => scalar'.features[k].progress = after
                 /\ after \in 0..ONE
      IN /\ \A btn \in {0, 2}, pt \in ScalarPoints :
              scalarMouseDown(btn, pt) => ScalarPointsApplied(<<pt>>, btn)
         /\ \A pts \in PointSeqs(ScalarPoints) :
              (scalar.isDown /\ scalar.downButton \in {0, 2} /\ scalarMouseMove(pts))
                => ScalarPointsApplied(pts, scalar.downButton) ]_vars

(* C32: in every reachable state all features that share a lineId carry   *)
(* identical ranges and an identical status, so that the summary, which     *)
(* reads only the first feature of each lineId, speaks for the whole line.  *)
C32_LineMatesAgree ==
  \A i, k \in 1..Len(features) :
    features[i].lineId = features[k].lineId
      => /\ features[i].ranges = features[k].ranges
         /\ features[i].status = features[k].status


(* C33: under any interleaving of undo (Ctrl+Z or the button) with the    *)
(* events of a brush gesture, no point-event mutates ranges unless a        *)
(* snapshot taken in the same gesture before that mutation is still         *)
(* available to undo: the mousedown that paints leaves the pre-gesture      *)
(* feature set on top of the stack, and a mousemove that paints finds it    *)
(* there, also when an undo ran between the mousedown and the mouseup.      *)
C33_DragAlwaysHasSnapshot ==
  [][ /\ (DragDown /\ features' # features)
           => (undoStack' # <<>> /\ Last(undoStack') = features)
      /\ (BrushMove /\ features' # features)
           => /\ gesture.phase = "active"
              /\ undoStack # <<>>
              /\ Last(undoStack) = gesture.base ]_vars

(* C34: while no brush gesture is active (no button is held, or the press  *)
(* that is held started none) mousemove and mouseup change neither the      *)
(* feature set nor the undo stack, and a mousedown with a button other than *)
(* left or right, or one that hits no feature within the tolerance, starts  *)
(* no gesture: it pushes no snapshot, mutates nothing, and leaves the brush *)
(* up, so that the moves that follow it are ignored.                        *)
C34_NoGestureNoEffect ==
  [][ /\ ((~buttonHeld \/ ~isDown) /\ (MouseMove \/ MouseUp))
           => UNCHANGED <<features, undoStack, undoCount>>
      /\ \A btn \in Buttons, pt \in Points :
           (onBrushMouseDown(btn, pt) /\ (btn = 1 \/ ~IsHit(pt)))
             => /\ UNCHANGED <<features, undoStack, undoCount>>
                /\ ~isDown' ]_vars

(* C35: a box gesture whose rectangle at release is at most 2 px wide or  *)
(* at most 2 px high leaves the feature set and the undo stack unchanged; a *)
(* larger rectangle pushes exactly one snapshot in the gesture (mousedown   *)
(* and mousemove push none), and that snapshot is the feature set as it was *)
(* before any feature was updated.                                          *)
C35_BoxSnapshotOncePerGesture ==
  [][ /\ (BoxDown \/ BoxMove) => UNCHANGED <<features, undoStack, undoCount>>
      /\ (BoxUp /\ boxDragging /\ (selectionBox.w <= 2 \/ selectionBox.h <= 2))
           => UNCHANGED <<features, undoStack, undoCount>>
      /\ (BoxUp /\ boxDragging /\ selectionBox.w > 2 /\ selectionBox.h > 2)
           => undoStack' = Append(undoStack, features) ]_vars

C35_Witness ==
  /\ panel = "box"
  /\ source = "fresh"
  /\ ~buttonHeld
  /\ selectionBox = NoBox
  /\ Len(undoStack) = 1
  /\ undoStack[1] # features
  /\ \A i \in DOMAIN undoStack[1] : undoStack[1][i].ranges = <<>>

(* C36: Reset All, confirmed on a non-empty feature set, pushes one        *)
(* snapshot of the set as it is and then sets every feature's ranges to     *)
(* empty and its status to pending, changing nothing else; an undo takes    *)
(* the top snapshot, so the undo that follows immediately restores the      *)
(* ranges and status of every feature as they were before the reset.  A     *)
(* declined confirmation, or an empty set, leaves feature set and undo      *)
(* stack unchanged.                                                         *)
C36_ResetIsUndoable ==
  [][ /\ \A confirmed \in BOOLEAN :
           (Len(undoStack) < MaxDepth /\ clearAll(confirmed))
             => IF features # <<>> /\ confirmed
                THEN /\ undoStack' = Append(undoStack, features)
                     /\ undoCount' = Len(undoStack) + 1
                     /\ features' = [i \in DOMAIN features |->
                                       [features[i] EXCEPT !.ranges = <<>>,
                                                           !.status = "pending"]]
                ELSE UNCHANGED <<features, undoStack, undoCount>>
      /\ (Undo /\ undoStack # <<>>)
           => /\ features' = Last(undoStack)
              /\ undoStack' = ButLast(undoStack) ]_vars

C36_Witness ==
  /\ undoStack # <<>>
  /\ \E i \in DOMAIN Last(undoStack) :
       /\ Last(undoStack)[i].ranges # <<>>
       /\ Last(undoStack)[i].status = "done"
  /\ features # <<>>
  /\ \A i \in DOMAIN features :
       features[i].ranges = <<>> /\ features[i].status = "pending"
  /\ gesture = NoGesture

(* C37: after any sequence of pushes and undos the displayed undo count    *)
(* equals the number of snapshots on the undo stack, also when the oldest   *)
(* snapshot has been evicted, so the Undo button is disabled exactly when   *)
(* the stack is empty.                                                      *)
C37_UndoCountMatchesStack ==
  /\ undoCount = Len(undoStack)
  /\ undoDisabled <=> (undoStack = <<>>)

C37_Witness ==
  /\ gesture.undo = "restored"
  /\ Len(undoStack) = MAX_UNDO - 1
  /\ undoCount = MAX_UNDO - 1
  /\ ~undoDisabled
  /\ Frontier > 2000 + MAX_UNDO

(* C38: in every reachable state the summary counts each lineId exactly   *)
(* once (its total is the sum of meters over the lines, its completed the   *)
(* sum over the lines of meters times min(1, sum of range lengths), both    *)
(* taken from the line's first feature) and satisfies 0 <= completed <=     *)
(* total and remaining = total - completed >= 0.                            *)
C38_SummaryWithinTotal ==
  LET s == summary(features, 1, {}, 0, 0)
      firsts == {i \in DOMAIN features : FirstOfLine(features, i)}
      lineIds == {features[i].lineId : i \in DOMAIN features}
      FirstOf(lid) == CHOOSE i \in firsts : features[i].lineId = lid
      RECURSIVE SumOver(_, _)
      SumOver(lids, term) ==
        IF lids = {} THEN 0
        ELSE LET lid == CHOOSE x \in lids : TRUE
             IN term[lid] + SumOver(lids \ {lid}, term)
      Meters == [lid \in lineIds |-> features[FirstOf(lid)].meters]
      Done ==
        [lid \in lineIds |->
           features[FirstOf(lid)].meters
             * Min(ONE, SumLengths(features[FirstOf(lid)].ranges))]
  IN /\ \A lid \in lineIds :
          Cardinality({i \in firsts : features[i].lineId = lid}) = 1
     /\ s.total = SumOver(lineIds, Meters)
     /\ s.completed = SumOver(lineIds, Done)
     /\ 0 <= s.completed
     /\ s.completed <= s.total * ONE
     /\ s.remaining = s.total * ONE - s.completed
     /\ s.remaining >= 0

C38_Witness ==
  /\ summary(features, 1, {}, 0, 0).completed > 0
  /\ summary(features, 1, {}, 0, 0).remaining > 0
  /\ \E i \in DOMAIN features :
       /\ ~FirstOfLine(features, i)
       /\ SumLengths(features[i].ranges) < 0
  /\ \E i \in DOMAIN features :
       FirstOfLine(features, i) /\ features[i].status = "done"

(* C39: after any sequence of addRecord calls, two calls issued before    *)
(* the component re-renders included, the daily log state and the stored    *)
(* 'dailyLog' entry both contain every added record in insertion order;     *)
(* after resetLog both are empty.  (Records stored by an earlier session   *)
(* count as added; the state is read once the mount effect has run.)        *)
C39_DailyLogKeepsEveryRecord ==
  daily.mounted =>
  /\ daily.dailyLog = daily.added
  /\ IF daily.stored.has
     THEN jsonParse(daily.stored.text) = daily.added
     ELSE daily.added = <<>>

====
